---- MODULE Spec2Model ----
(***************************************************************************)
(* kdeploy: the deploy command (commands/deploy.py) driving the           *)
(* KubernetesClient apply engine (k8s.py) against a cluster.               *)
(*                                                                         *)
(* The command is a single sequential process; every cluster API call is   *)
(* one atomic step, and an external actor may change the cluster between   *)
(* two calls.  API failures are environment choices, bounded by MaxFaults. *)
(***************************************************************************)
EXTENDS Integers, Sequences, FiniteSets, TLC

-----------------------------------------------------------------------------
(* Bounds of the model *)

\* API / tooling failures injected over all invocations of the command.
MaxFaults == 1
\* Writes of the external actor over all invocations.
MaxExt == 1
\* Invocations of the deploy command against the same cluster.
MaxRuns == 2
\* Longest list compared by _specs_equal.
MaxListLen == 2

-----------------------------------------------------------------------------
(* Structural values: the parsed YAML of a manifest field *)

None == [t |-> "none"]
Missing == [t |-> "missing"]
Scalar(n) == [t |-> "s", v |-> n]
Map(f) == [t |-> "m", m |-> f]
List(s) == [t |-> "l", l |-> s]
EmptyMap == Map([k \in {} |-> None])

IsNone(x) == x.t = "none"
IsMap(x) == x.t = "m"
IsList(x) == x.t = "l"

\* dict.get(key, default) on a manifest field that may be absent
GetOr(field, default) == IF field.t = "missing" THEN default ELSE field

SpecsIdentical(new, cur) == new = cur
RECURSIVE SpecsEqual(_, _)
\* _specs_equal(new_spec, current_spec): subset equality, directed from new
SpecsEqual(new, cur) ==
    IF IsNone(new) /\ IsNone(cur) THEN TRUE
    ELSE IF IsNone(new) \/ IsNone(cur) THEN new = cur
    ELSE IF IsMap(new) THEN
        /\ IsMap(cur)
        /\ \A k \in DOMAIN new.m :
              /\ k \in DOMAIN cur.m
              /\ SpecsEqual(new.m[k], cur.m[k])
    ELSE IF IsList(new) THEN
        /\ IsList(cur)
        /\ Len(new.l) = Len(cur.l)
        /\ \A i \in 1..Len(new.l) : SpecsEqual(new.l[i], cur.l[i])
    ELSE new = cur

DataAlwaysDiffers(new, cur) == TRUE
\* `new_data != current_data`
DataDiffers(new, cur) == new /= cur

\* _has_spec_changed, after a successful read of the live object
SpecDiffers(doc, live) ==
    IF doc.kind \in {"ConfigMap", "Secret"}
    THEN DataDiffers(GetOr(doc.data, EmptyMap), GetOr(live.data, EmptyMap))
    ELSE ~SpecsEqual(GetOr(doc.spec, EmptyMap), GetOr(live.spec, EmptyMap))

-----------------------------------------------------------------------------
(* Output paths.  A path is its sequence of components (the separators and  *)
(* the extension are left out); each component is one word.                 *)

\* str.lower() on one path component
Lower(tok) ==
    CASE tok = "ConfigMap" -> "configmap"
      [] tok = "Deployment" -> "deployment"
      [] tok = "Secret" -> "secret"
      [] OTHER -> tok

\* `word in str(rel_path).lower()`
PathHas(path, word) == \E i \in DOMAIN path : Lower(path[i]) = word

\* Rank of a component in Python's string order (upper case sorts first)
TokRank(tok) ==
    CASE tok = "ConfigMap" -> 1
      [] tok = "all" -> 2
      [] tok = "app" -> 3
      [] tok = "bad" -> 4
      [] tok = "configmap" -> 5
      [] tok = "deployment" -> 6
      [] tok = "mixed" -> 7
      [] tok = "statefulset" -> 8
      [] tok = "web" -> 9
      [] tok = "widget" -> 10
      [] OTHER -> 11

RECURSIVE PathLess(_, _)
\* str(p) < str(q)
PathLess(p, q) ==
    IF p = <<>> THEN q /= <<>>
    ELSE IF q = <<>> THEN FALSE
    ELSE IF TokRank(Head(p)) /= TokRank(Head(q)) THEN TokRank(Head(p)) < TokRank(Head(q))
    ELSE PathLess(Tail(p), Tail(q))

RECURSIVE InsertByPath(_, _)
InsertByPath(m, s) ==
    IF s = <<>> THEN <<m>>
    ELSE IF PathLess(m.path, Head(s).path) THEN <<m>> \o s
    ELSE <<Head(s)>> \o InsertByPath(m, Tail(s))

RendererOrder(rendered) == rendered
RECURSIVE SortedTemplates(_)
\* sorted(rendered_templates.items(), key=lambda x: str(x[0]))
SortedTemplates(rendered) ==
    IF rendered = <<>> THEN <<>>
    ELSE InsertByPath(Head(rendered), SortedTemplates(Tail(rendered)))

-----------------------------------------------------------------------------
(* Resource documents.  apiVersion is <<group, version>> or <<version>>;   *)
(* an empty name or apiVersion stands for a missing field; ns = "" when     *)
(* metadata.namespace is not declared.                                      *)

Doc(shape, kind, av, name, spec, data) ==
    [shape |-> shape, kind |-> kind, apiVersion |-> av, name |-> name,
     ns |-> "", spec |-> spec, data |-> data]

ConfigMapDoc == Doc("map", "ConfigMap", <<"v1">>, "cfg", Missing,
                    Map("k" :> Scalar(1)))
DeploymentDoc == Doc("map", "Deployment", <<"apps", "v1">>, "web",
                     Map("replicas" :> Scalar(2) @@ "ports" :> List(<<Scalar(80)>>)),
                     Missing)
WorkerDoc == Doc("map", "Deployment", <<"apps", "v1">>, "worker",
                 Map("replicas" :> Scalar(1)), Missing)
StatefulSetDoc == Doc("map", "StatefulSet", <<"apps", "v1">>, "db",
                      Map("replicas" :> Scalar(1)), Missing)
WidgetDoc == Doc("map", "Widget", <<"example.io", "v1">>, "w",
                 Map("size" :> Scalar(3)), Missing)
NamelessDoc == Doc("map", "ConfigMap", <<"v1">>, "", Missing, Map("k" :> Scalar(1)))
KindlessDoc == Doc("map", "", <<"v1">>, "cfg", Missing, Map("k" :> Scalar(1)))
VersionlessDoc == Doc("map", "ConfigMap", <<>>, "cfg", Missing, Map("k" :> Scalar(1)))
\* a YAML document that is not a mapping (a bare scalar)
ScalarDoc == Doc("scalar", "", <<>>, "", Missing, Missing)

\* a rendered text: its output path, whether the whole text is a valid YAML
\* stream, and its documents (those before the syntax error when it is not)
Manifest(path, yamlOK, docs) == [path |-> path, yamlOK |-> yamlOK, docs |-> docs]

\* The rendered templates of the application, in the renderer's order.
Batches ==
    { <<Manifest(<<"deployment">>, TRUE, <<DeploymentDoc>>),
        Manifest(<<"configmap">>, TRUE, <<ConfigMapDoc>>)>>,
      <<Manifest(<<"ConfigMap">>, TRUE, <<ConfigMapDoc>>),
        Manifest(<<"app">>, TRUE, <<DeploymentDoc>>)>>,
      <<Manifest(<<"all">>, TRUE, <<ConfigMapDoc, DeploymentDoc>>)>>,
      <<Manifest(<<"mixed">>, TRUE, <<NamelessDoc, ConfigMapDoc>>)>>,
      <<Manifest(<<"app">>, TRUE, <<KindlessDoc, VersionlessDoc, ConfigMapDoc>>)>>,
      <<Manifest(<<"statefulset">>, TRUE, <<StatefulSetDoc>>)>>,
      <<Manifest(<<"widget">>, TRUE, <<WidgetDoc>>)>>,
      <<Manifest(<<"app">>, TRUE, <<ConfigMapDoc>>),
        Manifest(<<"bad">>, FALSE, <<ConfigMapDoc>>),
        Manifest(<<"deployment">>, TRUE, <<DeploymentDoc>>)>>,
      <<Manifest(<<"app">>, TRUE, <<ConfigMapDoc, ScalarDoc>>),
        Manifest(<<"widget">>, TRUE, <<WidgetDoc>>)>>,
      <<Manifest(<<"web", "configmap">>, TRUE, <<ConfigMapDoc>>),
        Manifest(<<"web", "deployment">>, TRUE, <<DeploymentDoc>>)>> }

\* the document with metadata.namespace declared
InNamespace(doc, ns) == [doc EXCEPT !.ns = ns]

\* Rendered templates whose Deployment declares its own namespace, or whose
\* deployment template holds several Deployments.
RolloutBatches ==
    { <<Manifest(<<"configmap">>, TRUE, <<ConfigMapDoc>>),
        Manifest(<<"deployment">>, TRUE, <<InNamespace(DeploymentDoc, "shared")>>)>>,
      <<Manifest(<<"configmap">>, TRUE, <<InNamespace(ConfigMapDoc, "shared")>>),
        Manifest(<<"deployment">>, TRUE, <<InNamespace(DeploymentDoc, "shared"),
                                           DeploymentDoc>>)>>,
      <<Manifest(<<"configmap">>, TRUE, <<ConfigMapDoc>>),
        Manifest(<<"deployment">>, TRUE, <<DeploymentDoc, WorkerDoc>>)>> }

\* every manifest parses and every document declares kind, apiVersion, name
ValidBatch(b) ==
    \A i \in DOMAIN b :
        /\ b[i].yamlOK
        /\ \A j \in DOMAIN b[i].docs :
              LET d == b[i].docs[j]
              IN  d.shape = "map" /\ d.kind /= "" /\ d.apiVersion /= <<>> /\ d.name /= ""

-----------------------------------------------------------------------------
(* The cluster: a partial map from object identity to the live object.     *)

ObjId(ns, doc) == [ns |-> ns, kind |-> doc.kind, name |-> doc.name]

RECURSIVE DropNulls(_)
\* the API server stores no null-valued fields
DropNulls(v) ==
    IF IsMap(v)
    THEN Map([k \in {x \in DOMAIN v.m : ~IsNone(v.m[x])} |-> DropNulls(v.m[k])])
    ELSE v

\* fields the API server fills in on admission
ServerDefaults(kind, spec) ==
    IF kind = "Deployment" /\ IsMap(spec) /\ "strategy" \notin DOMAIN spec.m
    THEN Map(spec.m @@ ("strategy" :> Scalar(0)))
    ELSE spec

RECURSIVE MergePatch(_, _)
\* JSON-merge of a patch body into a stored value
MergePatch(live, body) ==
    IF IsMap(body) /\ IsMap(live)
    THEN Map([k \in {x \in DOMAIN body.m \cup DOMAIN live.m :
                        ~(x \in DOMAIN body.m /\ IsNone(body.m[x]))} |->
                 IF k \notin DOMAIN body.m THEN live.m[k]
                 ELSE IF k \notin DOMAIN live.m THEN DropNulls(body.m[k])
                 ELSE MergePatch(live.m[k], body.m[k])])
    ELSE DropNulls(body)

MergeField(live, body) ==
    IF body.t = "missing" THEN live
    ELSE IF live.t = "missing" THEN DropNulls(body)
    ELSE MergePatch(live, body)

\* the object stored by a create call
Stored(doc) ==
    [spec |-> IF doc.spec.t = "missing" THEN Missing
              ELSE ServerDefaults(doc.kind, DropNulls(doc.spec)),
     data |-> IF doc.data.t = "missing" THEN Missing ELSE DropNulls(doc.data)]

\* the object stored by a patch call with the manifest as body
Patched(live, doc) ==
    [spec |-> MergeField(live.spec, doc.spec), data |-> MergeField(live.data, doc.data)]

\* the body of rollout_restart: spec.template.metadata.annotations.restartedAt
Restarted(live, now) ==
    [live EXCEPT !.spec = MergeField(live.spec, Map("restartedAt" :> Scalar(now)))]

\* an object left by an earlier release, or edited by another actor
Stale(doc) ==
    [spec |-> IF doc.spec.t = "missing" THEN Missing
              ELSE ServerDefaults(doc.kind, Map("replicas" :> Scalar(9))),
     data |-> IF doc.data.t = "missing" THEN Missing ELSE Map("k" :> Scalar(9))]

\* the object after another actor has edited it by hand
Edited(doc) ==
    [spec |-> IF doc.spec.t = "missing" THEN Missing
              ELSE ServerDefaults(doc.kind, Map("replicas" :> Scalar(7))),
     data |-> IF doc.data.t = "missing" THEN Missing ELSE Map("k" :> Scalar(7))]

Put(cl, id, obj) == [x \in DOMAIN cl \cup {id} |-> IF x = id THEN obj ELSE cl[x]]
Remove(cl, id) == [x \in DOMAIN cl \ {id} |-> cl[x]]

-----------------------------------------------------------------------------
(* The deploy command *)

\* envs_to_deploy: the environments the application is configured in
TargetEnvs == <<"staging", "prod">>
\* cfg.get_namespace() of an environment
NamespaceOf(env) == IF env = "staging" THEN "stg" ELSE "prd"

VARIABLES
    batch,            \* rendered templates of the application (renderer order)
    dry_run,          \* --dry-run
    persist_build,    \* --persist-build
    cluster,          \* live objects
    cluster0,         \* the cluster before the first invocation
    namespaces,       \* namespaces that exist in the cluster
    run,              \* number of the current invocation of the command
    envIdx,           \* position in envs_to_deploy
    pc,               \* position of the command
    overall_success,
    exit_code,        \* -1 while running
    stats,
    needs_rollout,
    mIdx, dIdx,       \* manifest in sorted_templates, document in it
    results,          \* apply_manifest's results list (statuses)
    inflight,         \* what is known about the document being applied
    rIdx, rdIdx,      \* rollout scan: manifest in rendered_templates, document
    faultsLeft, extLeft,  \* failures / external writes still to come
    calls,            \* mutating calls issued in this invocation
    docLog, mLog,     \* outcome of each document / manifest of this batch
    started, connOK, passed, preFailed, rendered,  \* per invocation: sets of environments
    lastStats,        \* final BatchStats of the latest batch per environment
    temp_files,       \* temporary manifest files present on disk
    plugin,           \* the plugin installed: "none", "quiet" or "raising"
    hookLog,          \* hook calls of this invocation
    unit              \* a helper called on its own: its arguments, then its result

vars == <<batch, dry_run, persist_build, cluster, cluster0, namespaces, run, envIdx,
          pc, overall_success, exit_code, stats, needs_rollout, mIdx, dIdx, results,
          inflight, rIdx, rdIdx, faultsLeft, extLeft, calls, docLog, mLog, started,
          connOK, passed, preFailed, rendered, lastStats, temp_files, plugin, hookLog,
          unit>>

inputs == <<batch, dry_run, persist_build, cluster0, plugin, unit>>
ghostEnv == <<started, connOK, passed, preFailed, rendered>>
batchVars == <<stats, needs_rollout, mIdx, dIdx, results, inflight, rIdx, rdIdx,
               docLog, mLog>>

Env == TargetEnvs[envIdx]
Namespace == NamespaceOf(Env)
ZeroStats == [created |-> 0, configured |-> 0, unchanged |-> 0, error |-> 0]
NoStats == [created |-> -1, configured |-> -1, unchanged |-> -1, error |-> -1]
Idle == [absent |-> FALSE, apiFail |-> FALSE, conflict |-> FALSE, tiers |-> {},
         cause |-> "none", diff |-> "none", seen |-> Missing, raced |-> FALSE]
sorted_templates == SortedTemplates(batch)

EmptyCluster == [x \in {} |-> Missing]

\* the documents of a batch that name an object
NamedDocs(b) ==
    { d \in UNION { {b[i].docs[j] : j \in DOMAIN b[i].docs} : i \in DOMAIN b } :
        d.shape = "map" /\ d.kind /= "" /\ d.name /= "" }

\* the objects of the batch as an earlier release left them, in every namespace
StaleCluster(b) ==
    LET ids == { ObjId(IF d.ns = "" THEN NamespaceOf(TargetEnvs[e]) ELSE d.ns, d) :
                    e \in DOMAIN TargetEnvs, d \in NamedDocs(b) }
    IN  [id \in ids |->
            Stale(CHOOSE d \in NamedDocs(b) : d.kind = id.kind /\ d.name = id.name)]

\* the command about to be invoked, with f failures and x external writes ahead
InitOver(batches, f, x) ==
    /\ batch \in batches
    /\ dry_run \in BOOLEAN
    /\ persist_build \in BOOLEAN
    /\ cluster \in { EmptyCluster, StaleCluster(batch) }
    /\ cluster0 = cluster
    /\ namespaces \in { {"stg", "prd"}, {"prd"} }
    /\ run = 1 /\ envIdx = 1 /\ pc = "env"
    /\ overall_success = TRUE /\ exit_code = -1
    /\ stats = ZeroStats /\ needs_rollout = FALSE
    /\ mIdx = 1 /\ dIdx = 1 /\ results = <<>> /\ inflight = Idle
    /\ rIdx = 1 /\ rdIdx = 1
    /\ faultsLeft = f /\ extLeft = x
    /\ calls = <<>> /\ docLog = <<>> /\ mLog = <<>>
    /\ started = {} /\ connOK = {} /\ passed = {} /\ preFailed = {} /\ rendered = {}
    /\ lastStats = [e \in {TargetEnvs[i] : i \in DOMAIN TargetEnvs} |-> NoStats]
    /\ temp_files = {}
    /\ hookLog = <<>>

InitWith(f, x) == InitOver(Batches, f, x)

\* no helper is being called on its own
NoCall == [fn |-> "none", st |-> "ret"]

\* the command not running: one application, one cluster, nothing pending
Parked ==
    /\ InitWith(0, 0)
    /\ Len(batch) = 3 /\ ~dry_run /\ ~persist_build /\ plugin = "none"
    /\ cluster = EmptyCluster /\ namespaces = {"prd"}

engineVars == <<batch, dry_run, persist_build, cluster, cluster0, namespaces, run,
                envIdx, pc, overall_success, exit_code, stats, needs_rollout, mIdx,
                dIdx, results, inflight, rIdx, rdIdx, faultsLeft, extLeft, calls,
                docLog, mLog, started, connOK, passed, preFailed, rendered, lastStats,
                temp_files, plugin, hookLog>>

-----------------------------------------------------------------------------
(* Decisions of the code, one operator each *)

TypedKindsWithoutConfigMap == {"Deployment", "Service", "Secret", "Ingress",
                               "PodDisruptionBudget"}
\* kinds with a branch in _resource_exists / _has_spec_changed / create / patch
TypedKinds == {"Deployment", "Service", "ConfigMap", "Secret", "Ingress",
               "PodDisruptionBudget"}
\* API groups _apply_resource picks a typed client for
TypedGroups == {"apps", "batch", "networking.k8s.io", "policy"}

\* `not all([kind, api_version, name])`
OnlyNameRequired(d) == d.name = ""
MissingFields(d) == d.kind = "" \/ d.apiVersion = <<>> \/ d.name = ""

\* the client object chosen from apiVersion: "typed:<group>" or "dynamic"
ClientFor(av) ==
    IF Len(av) = 1 THEN "core"
    ELSE IF av[1] \in TypedGroups THEN av[1]
    ELSE "dynamic"

\* whether the chosen typed client has the method the kind's branch calls
ClientServes(cl, kind) ==
    CASE kind = "Deployment" -> cl = "apps"
      [] kind \in {"Service", "ConfigMap", "Secret"} -> cl = "core"
      [] kind = "Ingress" -> cl = "networking.k8s.io"
      [] kind = "PodDisruptionBudget" -> TRUE
      [] OTHER -> TRUE

\* _resource_exists: True after a successful read, False on 404
ExistsResult(found) == found

DryRunNever(dry) == FALSE
\* dry_run_param = "All" if dry_run else None (and ['All'], --dry-run=server)
DryRunParam(dry) == dry

ApiErrorAlwaysError(code) == "error"
\* except ApiException: 409 -> unchanged, anything else -> error
ApiErrorStatus(code) == IF code = 409 THEN "unchanged" ELSE "error"

\* the words of a resource name
NameWords(name) ==
    CASE name = "created-items" -> {"created", "items"}
      [] name = "configured-items" -> {"configured", "items"}
      [] OTHER -> {name}

\* result.stdout.lower() of `kubectl apply`, "<kind>/<name> <result>", as the
\* set of the words in it
KubectlStdout(kind, name, result) == {Lower(kind)} \cup NameWords(name) \cup {result}

\* classification of the external apply command's standard output:
\* `if 'created' in output: ... elif 'configured' in output: ...`
KubectlStatus(output) ==
    IF "created" \in output THEN "created"
    ELSE IF "configured" \in output THEN "configured"
    ELSE IF "unchanged" \in output THEN "unchanged"
    ELSE "configured"

\* apply_manifest's summary of its results list
Summarize(res) == IF Len(res) = 1 THEN res[1] ELSE "configured"

AnyConfiguredSetsRollout(status, path) == status = "configured"
\* the rollout flag test on a manifest counted as `status`
SetsRollout(status, path) ==
    status = "configured" /\ (PathHas(path, "configmap") \/ PathHas(path, "secret"))

GateOpen(success) == TRUE
\* `if not success: ... continue` after a preflight check
PreflightGate(success) == success

\* metadata.get('namespace', namespace)
DocNamespace(d, ns) == IF d.ns = "" THEN ns ELSE d.ns

CurManifest == sorted_templates[mIdx]
CurDoc == CurManifest.docs[dIdx]
CurId == ObjId(DocNamespace(CurDoc, Namespace), CurDoc)

Call(op, id, dry, ok) ==
    [env |-> Env, m |-> mIdx, d |-> dIdx, op |-> op, id |-> id, dry |-> dry, ok |-> ok]

\* what is installed behind plugin_manager: nothing, a hook implementation
\* that returns, or one that raises
Plugins == {"none", "quiet", "raising"}

CallHookPropagates(raises) == ~raises
\* call_hook: `try: return hook(**kwargs)  except Exception: ... return []`
CallHookReturns(raises) == TRUE

\* plugin_manager.call_hook(hook_name, ...) as recorded in the hook log
HookCall(hook_name) ==
    [hook |-> hook_name, env |-> Env, raised |-> plugin = "raising",
     caught |-> CallHookReturns(plugin = "raising"),
     stats |-> IF hook_name = "kdeploy_post_deploy" THEN stats ELSE NoStats,
     success |-> IF hook_name = "kdeploy_post_deploy" THEN stats.error = 0 ELSE TRUE]

\* an exception of a hook implementation leaves call_hook
HookEscapes == plugin /= "none" /\ ~CallHookReturns(plugin = "raising")

\* the hook log after `if plugin_manager: plugin_manager.call_hook(...)`
AfterHook(hook_name) ==
    IF plugin = "none" THEN hookLog ELSE Append(hookLog, HookCall(hook_name))

-----------------------------------------------------------------------------
(* Steps shared by several actions *)

CanFail == faultsLeft > 0

\* sys.exit(1) in the except clauses that close deploy()
Abort ==
    /\ pc' = "exited"
    /\ exit_code' = 1
    /\ UNCHANGED <<envIdx, overall_success>>

\* the end of the loop body for one environment (`continue` included)
EnvDone(ok) ==
    /\ overall_success' = (overall_success /\ ok)
    /\ envIdx' = envIdx + 1
    /\ pc' = "env"
    /\ UNCHANGED exit_code

\* _apply_resource returns (status, message); apply_manifest appends it
FinishDoc(status, fl) ==
    /\ results' = Append(results, status)
    /\ docLog' = Append(docLog, [env |-> Env, m |-> mIdx, d |-> dIdx, doc |-> CurDoc,
                                 status |-> status, absent |-> fl.absent,
                                 apiFail |-> fl.apiFail, conflict |-> fl.conflict,
                                 tiers |-> fl.tiers, cause |-> fl.cause,
                                 diff |-> fl.diff, raced |-> fl.raced])
    /\ dIdx' = dIdx + 1
    /\ inflight' = Idle
    /\ pc' = "doc"
    /\ UNCHANGED <<stats, needs_rollout, mIdx, rIdx, rdIdx, mLog>>

ErrorsNotCounted(st, status) == IF status = "error" THEN st ELSE [st EXCEPT ![status] = @ + 1]
\* stats[status] = stats.get(status, 0) + 1, in the try block and, with
\* 'error', in the except block
Counted(st, status) ==
    [k \in DOMAIN st \cup {status} |->
        IF k = status THEN (IF k \in DOMAIN st THEN st[k] ELSE 0) + 1 ELSE st[k]]

\* the body of the for loop of _deploy_single_app after apply_manifest ended
RecordManifest(status, raised) ==
    /\ stats' = Counted(stats, status)
    /\ needs_rollout' = (needs_rollout \/ (~raised /\ SetsRollout(status, CurManifest.path)))
    /\ mLog' = Append(mLog, [env |-> Env, m |-> mIdx, status |-> status, raised |-> raised])
    /\ mIdx' = mIdx + 1
    /\ dIdx' = 1
    /\ results' = <<>>
    /\ inflight' = Idle
    /\ pc' = "manifest"
    /\ UNCHANGED <<rIdx, rdIdx, docLog>>

-----------------------------------------------------------------------------
(* deploy(): the loop over environments and the preflight checks *)

BeginEnv ==
    /\ pc = "env" /\ envIdx <= Len(TargetEnvs)
    /\ started' = started \cup {Env}
    /\ \/ /\ pc' = "check_connection"
          /\ UNCHANGED <<faultsLeft, envIdx, overall_success, exit_code, preFailed>>
       \/ /\ CanFail
          /\ faultsLeft' = faultsLeft - 1
          /\ preFailed' = preFailed \cup {Env}
          /\ Abort
    /\ UNCHANGED <<inputs, temp_files, hookLog, cluster, namespaces, run, batchVars, extLeft, calls,
                   connOK, passed, rendered, lastStats>>

CheckConnection ==
    /\ pc = "check_connection"
    /\ \E success \in {TRUE} \cup (IF CanFail THEN {FALSE} ELSE {}) :
          /\ faultsLeft' = IF success THEN faultsLeft ELSE faultsLeft - 1
          /\ connOK' = IF success THEN connOK \cup {Env} ELSE connOK
          /\ preFailed' = IF success THEN preFailed ELSE preFailed \cup {Env}
          /\ IF PreflightGate(success)
             THEN /\ pc' = "check_namespace"
                  /\ UNCHANGED <<envIdx, overall_success, exit_code>>
             ELSE EnvDone(FALSE)
    /\ UNCHANGED <<inputs, temp_files, hookLog, cluster, namespaces, run, batchVars, extLeft, calls,
                   started, passed, rendered, lastStats>>

CheckNamespace ==
    /\ pc = "check_namespace"
    /\ \/ /\ LET exists == Namespace \in namespaces
             IN  /\ passed' = IF exists /\ Env \in connOK
                               THEN passed \cup {Env} ELSE passed
                 /\ preFailed' = IF exists THEN preFailed ELSE preFailed \cup {Env}
                 /\ IF PreflightGate(exists)
                    THEN /\ pc' = "deploy"
                         /\ UNCHANGED <<envIdx, overall_success, exit_code>>
                    ELSE EnvDone(FALSE)
          /\ UNCHANGED faultsLeft
       \/ /\ CanFail
          /\ faultsLeft' = faultsLeft - 1
          /\ preFailed' = preFailed \cup {Env}
          /\ Abort
          /\ UNCHANGED passed
    /\ UNCHANGED <<inputs, temp_files, hookLog, cluster, namespaces, run, batchVars, extLeft, calls,
                   started, connOK, rendered, lastStats>>

\* whether render_app_templates visits a component directory
HasComponentDir == \E i \in DOMAIN batch : Len(batch[i].path) > 1

\* _deploy_single_app up to the end of the build
StartDeploy ==
    /\ pc = "deploy"
    /\ hookLog' = AfterHook("kdeploy_pre_deploy")
    /\ IF HookEscapes
       THEN /\ Abort
            /\ UNCHANGED <<faultsLeft, rendered, batchVars>>
       ELSE \/ /\ ~persist_build /\ HasComponentDir
               /\ Abort
               /\ UNCHANGED <<faultsLeft, rendered, batchVars>>
            \/ /\ persist_build \/ ~HasComponentDir
               /\ \/ /\ rendered' = rendered \cup {Env}
                     /\ stats' = ZeroStats
                     /\ needs_rollout' = FALSE
                     /\ mIdx' = 1 /\ dIdx' = 1 /\ rIdx' = 1 /\ rdIdx' = 1
                     /\ results' = <<>> /\ inflight' = Idle
                     /\ docLog' = <<>> /\ mLog' = <<>>
                     /\ pc' = "manifest"
                     /\ UNCHANGED <<faultsLeft, envIdx, overall_success, exit_code>>
                  \/ /\ CanFail
                     /\ faultsLeft' = faultsLeft - 1
                     /\ EnvDone(FALSE)
                     /\ UNCHANGED <<rendered, batchVars>>
    /\ UNCHANGED <<inputs, temp_files, cluster, namespaces, run, extLeft, calls,
                   started, connOK, passed, preFailed, lastStats>>

EndRun ==
    /\ pc = "env" /\ envIdx > Len(TargetEnvs)
    /\ exit_code' = IF overall_success THEN 0 ELSE 1
    /\ pc' = "exited"
    /\ UNCHANGED <<inputs, temp_files, hookLog, cluster, namespaces, run, envIdx, overall_success,
                   batchVars, faultsLeft, extLeft, calls, ghostEnv, lastStats>>

\* the command is invoked again with the same arguments
Reinvoke ==
    /\ pc = "exited" /\ run < MaxRuns
    /\ run' = run + 1
    /\ envIdx' = 1 /\ pc' = "env"
    /\ overall_success' = TRUE /\ exit_code' = -1
    /\ stats' = ZeroStats /\ needs_rollout' = FALSE
    /\ mIdx' = 1 /\ dIdx' = 1 /\ results' = <<>> /\ inflight' = Idle
    /\ rIdx' = 1 /\ rdIdx' = 1
    /\ calls' = <<>> /\ docLog' = <<>> /\ mLog' = <<>>
    /\ started' = {} /\ connOK' = {} /\ passed' = {} /\ preFailed' = {}
    /\ rendered' = {} /\ hookLog' = <<>>
    /\ UNCHANGED <<inputs, temp_files, cluster, namespaces, faultsLeft, extLeft, lastStats>>

-----------------------------------------------------------------------------
(* The batch: apply_manifest and _apply_resource, one API call per step *)

topVars == <<run, envIdx, overall_success, exit_code>>

LoadedLazily(m) == TRUE
\* manifests = list(yaml.safe_load_all(content)): the whole stream is parsed
\* before the loop over the documents starts
StreamLoads(m) == m.yamlOK

\* for rel_path, content in sorted_templates: ... yaml.safe_load_all(content)
ApplyManifest ==
    /\ pc = "manifest"
    /\ IF mIdx > Len(sorted_templates)
       THEN /\ pc' = "rollout"
            /\ rIdx' = 1 /\ rdIdx' = 1
            /\ UNCHANGED <<stats, needs_rollout, mIdx, dIdx, results, inflight,
                           docLog, mLog>>
       ELSE IF ~StreamLoads(CurManifest)
       THEN RecordManifest("error", TRUE)
       ELSE /\ results' = <<>>
            /\ dIdx' = 1
            /\ inflight' = Idle
            /\ pc' = "doc"
            /\ UNCHANGED <<stats, needs_rollout, mIdx, rIdx, rdIdx, docLog, mLog>>
    /\ UNCHANGED <<inputs, temp_files, hookLog, cluster, namespaces, topVars, faultsLeft, extLeft, calls,
                   ghostEnv, lastStats>>

\* the head of `for manifest in manifests` and of _apply_resource
NextDoc ==
    /\ pc = "doc"
    /\ IF dIdx > Len(CurManifest.docs)
       THEN RecordManifest(Summarize(results), FALSE)
       ELSE IF CurDoc.shape = "empty"
       THEN /\ dIdx' = dIdx + 1
            /\ UNCHANGED <<pc, stats, needs_rollout, mIdx, results, inflight,
                           rIdx, rdIdx, docLog, mLog>>
       ELSE IF CurDoc.shape /= "map"
       THEN RecordManifest("error", TRUE)
       ELSE IF MissingFields(CurDoc)
       THEN FinishDoc("error", Idle)
       ELSE /\ pc' = IF ClientFor(CurDoc.apiVersion) = "dynamic"
                     THEN "dyn_get" ELSE "exists"
            /\ inflight' = [Idle EXCEPT !.absent = CurId \notin DOMAIN cluster]
            /\ UNCHANGED <<stats, needs_rollout, mIdx, dIdx, results, rIdx, rdIdx,
                           docLog, mLog>>
    /\ UNCHANGED <<inputs, temp_files, hookLog, cluster, namespaces, topVars, faultsLeft, extLeft, calls,
                   ghostEnv, lastStats>>

Failed(fl) == [fl EXCEPT !.apiFail = TRUE]
Tier(fl, t) == [fl EXCEPT !.tiers = @ \cup {t}]

\* _resource_exists
ResourceExists ==
    /\ pc = "exists"
    /\ \/ /\ CurDoc.kind \notin TypedKinds
          /\ pc' = "create"
          /\ UNCHANGED <<faultsLeft, batchVars>>
       \/ /\ CurDoc.kind \in TypedKinds
          /\ ~ClientServes(ClientFor(CurDoc.apiVersion), CurDoc.kind)
          /\ FinishDoc("error", Failed(inflight))
          /\ UNCHANGED faultsLeft
       \/ /\ CurDoc.kind \in TypedKinds
          /\ ClientServes(ClientFor(CurDoc.apiVersion), CurDoc.kind)
          /\ \/ /\ pc' = IF ExistsResult(CurId \in DOMAIN cluster)
                         THEN "diff" ELSE "create"
                /\ UNCHANGED <<faultsLeft, batchVars>>
             \/ /\ CanFail
                /\ faultsLeft' = faultsLeft - 1
                /\ FinishDoc(ApiErrorStatus(500), Failed(inflight))
    /\ UNCHANGED <<inputs, temp_files, hookLog, cluster, namespaces, topVars, extLeft, calls,
                   ghostEnv, lastStats>>

ReadErrorMeansUnchanged(status) == FALSE
\* `except ApiException as e: if e.status == 404: return True; return True` and
\* `except Exception: return True`
ReadErrorMeansChanged(status) == TRUE

WritesAnyway(changed) == FALSE
\* `if not changed: return "unchanged", "unchanged"`
SkipsWrite(changed) == ~changed

\* the outcome of the diff step as kept for the document
Diffed(fl, d) == [fl EXCEPT !.diff = d]
\* the live object the diff step read
Seen(fl, live) == [fl EXCEPT !.seen = live]
\* the patch meets a live object other than the one the diff step read
Raced(fl, live) == [fl EXCEPT !.raced = (fl.diff = "changed" /\ fl.seen /= live)]

PatchIfUnmodified(seen, live) == seen = live
\* patch_namespaced_<kind>(name, namespace, body=manifest): the body is the
\* rendered manifest, which carries no metadata.resourceVersion, so the server
\* applies the patch to whatever object is live
PatchAccepted(seen, live) == TRUE

\* _has_spec_changed and the `if not changed` that follows it
HasSpecChanged ==
    /\ pc = "diff"
    /\ \/ /\ LET found == CurId \in DOMAIN cluster
                 changed == IF found
                            THEN SpecDiffers(CurDoc, cluster[CurId])
                            ELSE ReadErrorMeansChanged(404)
                 fl == Seen(Diffed(inflight,
                                   IF ~found THEN "notfound"
                                   ELSE IF changed THEN "changed" ELSE "same"),
                            IF found THEN cluster[CurId] ELSE Missing)
             IN  IF SkipsWrite(changed)
                 THEN FinishDoc("unchanged", fl)
                 ELSE /\ pc' = "patch"
                      /\ inflight' = fl
                      /\ UNCHANGED <<stats, needs_rollout, mIdx, dIdx, results, rIdx,
                                     rdIdx, docLog, mLog>>
          /\ UNCHANGED faultsLeft
       \/ /\ CanFail
          /\ faultsLeft' = faultsLeft - 1
          /\ IF SkipsWrite(ReadErrorMeansChanged(500))
             THEN FinishDoc("unchanged", Diffed(Failed(inflight), "failed"))
             ELSE /\ pc' = "patch"
                  /\ inflight' = Diffed(Failed(inflight), "failed")
                  /\ UNCHANGED <<stats, needs_rollout, mIdx, dIdx, results, rIdx, rdIdx,
                                 docLog, mLog>>
    /\ UNCHANGED <<inputs, temp_files, hookLog, cluster, namespaces, topVars, extLeft, calls,
                   ghostEnv, lastStats>>

\* patch_namespaced_<kind>(name, namespace, body=manifest, dry_run=...)
Patch ==
    /\ pc = "patch"
    /\ LET dry == DryRunParam(dry_run)
       IN  \/ /\ CurId \in DOMAIN cluster
              /\ PatchAccepted(inflight.seen, cluster[CurId])
              /\ cluster' = IF dry THEN cluster
                            ELSE Put(cluster, CurId, Patched(cluster[CurId], CurDoc))
              /\ calls' = Append(calls, Call("patch", CurId, dry, TRUE))
              /\ FinishDoc("configured", Raced(inflight, cluster[CurId]))
              /\ UNCHANGED faultsLeft
           \/ /\ CurId \in DOMAIN cluster
              /\ ~PatchAccepted(inflight.seen, cluster[CurId])
              /\ calls' = Append(calls, Call("patch", CurId, dry, FALSE))
              /\ FinishDoc(ApiErrorStatus(409),
                           [Failed(Raced(inflight, cluster[CurId])) EXCEPT !.conflict = TRUE])
              /\ UNCHANGED <<faultsLeft, cluster>>
           \/ /\ CurId \notin DOMAIN cluster
              /\ calls' = Append(calls, Call("patch", CurId, dry, FALSE))
              /\ FinishDoc(ApiErrorStatus(404), Failed(inflight))
              /\ UNCHANGED <<faultsLeft, cluster>>
           \/ /\ CanFail
              /\ faultsLeft' = faultsLeft - 1
              /\ calls' = Append(calls, Call("patch", CurId, dry, FALSE))
              /\ \E code \in {409, 500} :
                    FinishDoc(ApiErrorStatus(code), Failed(inflight))
              /\ UNCHANGED cluster
    /\ UNCHANGED <<inputs, temp_files, hookLog, namespaces, topVars, extLeft, ghostEnv, lastStats>>

\* create_namespaced_<kind>(namespace, body=manifest, dry_run=...)
Create ==
    /\ pc = "create"
    /\ LET dry == DryRunParam(dry_run)
       IN  \/ /\ CurDoc.kind \notin TypedKinds
              /\ FinishDoc("error", inflight)
              /\ UNCHANGED <<faultsLeft, cluster, calls>>
           \/ /\ CurDoc.kind \in TypedKinds
              /\ CurId \notin DOMAIN cluster
              /\ cluster' = IF dry THEN cluster
                            ELSE Put(cluster, CurId, Stored(CurDoc))
              /\ calls' = Append(calls, Call("create", CurId, dry, TRUE))
              /\ FinishDoc("created", inflight)
              /\ UNCHANGED faultsLeft
           \/ /\ CurDoc.kind \in TypedKinds
              /\ CurId \in DOMAIN cluster
              /\ calls' = Append(calls, Call("create", CurId, dry, FALSE))
              /\ FinishDoc(ApiErrorStatus(409),
                           [Failed(inflight) EXCEPT !.conflict = TRUE])
              /\ UNCHANGED <<faultsLeft, cluster>>
           \/ /\ CurDoc.kind \in TypedKinds
              /\ CanFail
              /\ faultsLeft' = faultsLeft - 1
              /\ calls' = Append(calls, Call("create", CurId, dry, FALSE))
              /\ FinishDoc(ApiErrorStatus(500), Failed(inflight))
              /\ UNCHANGED cluster
    /\ UNCHANGED <<inputs, temp_files, hookLog, namespaces, topVars, extLeft, ghostEnv, lastStats>>

-----------------------------------------------------------------------------
(* The fallback path: _apply_custom_resource, then _apply_via_kubectl *)

\* dyn_client.resources.get(...) and api_resource.get(name, namespace)
DynGet ==
    /\ pc = "dyn_get"
    /\ \/ /\ pc' = IF CurId \in DOMAIN cluster THEN "dyn_patch" ELSE "dyn_create"
          /\ inflight' = Tier(inflight, "dynamic")
          /\ UNCHANGED faultsLeft
       \/ /\ CanFail
          /\ faultsLeft' = faultsLeft - 1
          /\ \/ pc' = "kubectl"        \* no schema for (apiVersion, kind)
             \/ pc' = "dyn_create"     \* the read failed: exists = False
          /\ inflight' = Failed(Tier(inflight, "dynamic"))
    /\ UNCHANGED <<inputs, temp_files, hookLog, cluster, namespaces, topVars, stats, needs_rollout, mIdx,
                   dIdx, results, rIdx, rdIdx, docLog, mLog, extLeft, calls,
                   ghostEnv, lastStats>>

FallsBackAlways(raised) == TRUE
\* `except Exception as e: return self._apply_via_kubectl(...)` around the
\* whole dynamic attempt; a call that returns leads to `return "configured"` or
\* `return "created"`
FallsBack(raised) == raised

\* api_resource.patch(...) / api_resource.create(...)
DynWrite ==
    /\ pc \in {"dyn_patch", "dyn_create"}
    /\ LET dry == DryRunParam(dry_run)
           op == IF pc = "dyn_patch" THEN "patch" ELSE "create"
           here == CurId \in DOMAIN cluster
       IN  \/ /\ (pc = "dyn_patch") = here
              /\ cluster' = IF dry THEN cluster
                            ELSE IF here
                            THEN Put(cluster, CurId, Patched(cluster[CurId], CurDoc))
                            ELSE Put(cluster, CurId, Stored(CurDoc))
              /\ calls' = Append(calls, Call(op, CurId, dry, TRUE))
              /\ IF FallsBack(FALSE)
                 THEN /\ pc' = "kubectl"
                      /\ UNCHANGED <<inflight, stats, needs_rollout, mIdx, dIdx,
                                     results, rIdx, rdIdx, docLog, mLog>>
                 ELSE FinishDoc(IF here THEN "configured" ELSE "created", inflight)
              /\ UNCHANGED faultsLeft
           \/ /\ (pc = "dyn_patch") /= here
              /\ calls' = Append(calls, Call(op, CurId, dry, FALSE))
              /\ pc' = "kubectl"
              /\ inflight' = [Failed(inflight) EXCEPT !.conflict = here]
              /\ UNCHANGED <<faultsLeft, cluster, stats, needs_rollout, mIdx, dIdx,
                             results, rIdx, rdIdx, docLog, mLog>>
           \/ /\ CanFail
              /\ faultsLeft' = faultsLeft - 1
              /\ calls' = Append(calls, Call(op, CurId, dry, FALSE))
              /\ pc' = "kubectl"
              /\ inflight' = Failed(inflight)
              /\ UNCHANGED <<cluster, stats, needs_rollout, mIdx, dIdx,
                             results, rIdx, rdIdx, docLog, mLog>>
    /\ UNCHANGED <<inputs, temp_files, hookLog, namespaces, topVars, extLeft, ghostEnv, lastStats>>

\* what `kubectl apply` reports for the document against the live cluster
KubectlOutput(d, cl, id) ==
    IF id \notin DOMAIN cl THEN "created"
    ELSE IF Patched(cl[id], d) /= cl[id] THEN "configured"
    ELSE "unchanged"

\* how an invocation of the external command can fail: the temporary file cannot
\* be created, the command cannot be launched, it runs over the 30 s timeout, or
\* it exits with a non-zero status
KubectlFailures == {"tempfile", "launch", "timeout", "exit"}

\* whether the temporary file is still there when _apply_via_kubectl returns:
\* os.unlink follows subprocess.run inside the try block
TempFileLeft(cause) == cause \in {"launch", "timeout"}

KubectlReturnIgnoringFailure(cause, output) == KubectlStatus(output)
\* the status _apply_via_kubectl returns
KubectlReturn(cause, output) ==
    IF cause = "none" THEN KubectlStatus(output) ELSE "error"

\* tempfile.NamedTemporaryFile(..., delete=False); subprocess.run(['kubectl',
\* 'apply', '-f', temp_file, '-n', namespace, ...], timeout=30); os.unlink(temp_file)
Kubectl ==
    /\ pc = "kubectl"
    /\ LET dry == DryRunParam(dry_run)
           fl == Tier(inflight, "kubectl")
           output == KubectlStdout(CurDoc.kind, CurDoc.name,
                                   KubectlOutput(CurDoc, cluster, CurId))
       IN  \/ /\ cluster' = IF dry THEN cluster
                            ELSE IF CurId \in DOMAIN cluster
                            THEN Put(cluster, CurId, Patched(cluster[CurId], CurDoc))
                            ELSE Put(cluster, CurId, Stored(CurDoc))
              /\ calls' = Append(calls, Call("kubectl", CurId, dry, TRUE))
              /\ FinishDoc(KubectlReturn("none", output), fl)
              /\ UNCHANGED <<faultsLeft, temp_files>>
           \/ /\ CanFail
              /\ faultsLeft' = faultsLeft - 1
              /\ \E cause \in KubectlFailures :
                    /\ calls' = IF cause = "tempfile" THEN calls
                                ELSE Append(calls, Call("kubectl", CurId, dry, FALSE))
                    /\ temp_files' = IF TempFileLeft(cause)
                                     THEN temp_files \cup {[env |-> Env, m |-> mIdx, d |-> dIdx]}
                                     ELSE temp_files
                    /\ FinishDoc(KubectlReturn(cause, output),
                                 [Failed(fl) EXCEPT !.cause = cause])
              /\ UNCHANGED cluster
    /\ UNCHANGED <<inputs, hookLog, namespaces, topVars, extLeft, ghostEnv, lastStats>>

-----------------------------------------------------------------------------
(* After the batch: rollout restarts, post-deploy *)

RollManifest == batch[rIdx]
RollDoc == RollManifest.docs[rdIdx]

\* rollout_restart catches ApiException only; any other exception reaches the
\* `except Exception: pass` around the loop over the documents of the template
RolloutErrorEndsTemplate(api_exception) == ~api_exception

\* k8s.rollout_restart(deploy_name, namespace): the namespace of the batch
RolloutNamespace(doc, ns) == ns

\* `if needs_rollout and not dry_run:` and the scan of rendered_templates
RolloutScan ==
    /\ pc = "rollout"
    /\ IF ~(needs_rollout /\ ~dry_run) \/ rIdx > Len(batch)
       THEN /\ pc' = "post"
            /\ UNCHANGED <<rIdx, rdIdx, cluster, calls, faultsLeft>>
       ELSE IF \/ ~PathHas(RollManifest.path, "deployment")
               \/ ~RollManifest.yamlOK
               \/ rdIdx > Len(RollManifest.docs)
       THEN /\ rIdx' = rIdx + 1 /\ rdIdx' = 1
            /\ UNCHANGED <<pc, cluster, calls, faultsLeft>>
       ELSE IF RollDoc.shape = "empty" \/ (RollDoc.shape = "map" /\ RollDoc.kind /= "Deployment")
       THEN /\ rdIdx' = rdIdx + 1
            /\ UNCHANGED <<pc, rIdx, cluster, calls, faultsLeft>>
       ELSE IF RollDoc.shape /= "map" \/ RollDoc.name = ""
       THEN /\ rIdx' = rIdx + 1 /\ rdIdx' = 1     \* except Exception: pass
            /\ UNCHANGED <<pc, cluster, calls, faultsLeft>>
       ELSE LET id == ObjId(RolloutNamespace(RollDoc, Namespace), RollDoc)
            IN  /\ \/ /\ id \in DOMAIN cluster
                      /\ cluster' = Put(cluster, id, Restarted(cluster[id], run))
                      /\ calls' = Append(calls,
                            [Call("rollout", id, FALSE, TRUE) EXCEPT !.m = 0, !.d = 0])
                      /\ rdIdx' = rdIdx + 1
                      /\ UNCHANGED <<faultsLeft, rIdx>>
                   \/ /\ id \notin DOMAIN cluster \/ CanFail   \* except ApiException
                      /\ faultsLeft' = IF id \in DOMAIN cluster THEN faultsLeft - 1 ELSE faultsLeft
                      /\ calls' = Append(calls,
                            [Call("rollout", id, FALSE, FALSE) EXCEPT !.m = 0, !.d = 0])
                      /\ rdIdx' = rdIdx + 1
                      /\ UNCHANGED <<cluster, rIdx>>
                   \/ /\ CanFail   \* another exception leaves rollout_restart
                      /\ faultsLeft' = faultsLeft - 1
                      /\ calls' = Append(calls,
                            [Call("rollout", id, FALSE, FALSE) EXCEPT !.m = 0, !.d = 0])
                      /\ rIdx' = IF RolloutErrorEndsTemplate(FALSE) THEN rIdx + 1 ELSE rIdx
                      /\ rdIdx' = IF RolloutErrorEndsTemplate(FALSE) THEN 1 ELSE rdIdx + 1
                      /\ UNCHANGED cluster
                /\ UNCHANGED pc
    /\ UNCHANGED <<inputs, temp_files, hookLog, namespaces, topVars, stats, needs_rollout, mIdx, dIdx,
                   results, inflight, docLog, mLog, extLeft, ghostEnv, lastStats>>

\* success = stats.get('error', 0) == 0; post-deploy hook; return success
PostDeploy ==
    /\ pc = "post"
    /\ lastStats' = [lastStats EXCEPT ![Env] = stats]
    /\ hookLog' = AfterHook("kdeploy_post_deploy")
    /\ IF HookEscapes THEN Abort ELSE EnvDone(stats.error = 0)
    /\ UNCHANGED <<inputs, temp_files, cluster, namespaces, run, batchVars, faultsLeft, extLeft,
                   calls, ghostEnv>>

-----------------------------------------------------------------------------
(* Another actor writing to the object the engine is working on *)

ExternalActor ==
    /\ pc \in {"diff", "patch", "create", "dyn_patch", "dyn_create", "kubectl"}
    /\ extLeft > 0
    /\ extLeft' = extLeft - 1
    /\ \/ cluster' = Put(cluster, CurId, Stale(CurDoc))
       \/ cluster' = Put(cluster, CurId, Edited(CurDoc))
       \/ /\ CurId \in DOMAIN cluster
          /\ cluster' = Remove(cluster, CurId)
    /\ UNCHANGED <<inputs, temp_files, hookLog, namespaces, topVars, pc, batchVars, faultsLeft, calls,
                   ghostEnv, lastStats>>

\* One invocation of the command, with API failures and an external actor.
Init == InitWith(MaxFaults, MaxExt) /\ plugin = "none" /\ unit = NoCall

Next ==
    \/ BeginEnv \/ CheckConnection \/ CheckNamespace \/ StartDeploy
    \/ ApplyManifest \/ NextDoc
    \/ ResourceExists \/ HasSpecChanged \/ Patch \/ Create
    \/ DynGet \/ DynWrite \/ Kubectl
    \/ RolloutScan \/ PostDeploy \/ EndRun
    \/ ExternalActor

Spec == Init /\ [][Next]_vars

\* Repeated invocations against a cluster nobody else writes to, no API failure.
InitRerun == InitWith(0, 0) /\ plugin \in Plugins /\ unit = NoCall

NextRerun ==
    \/ BeginEnv \/ CheckConnection \/ CheckNamespace \/ StartDeploy
    \/ ApplyManifest \/ NextDoc
    \/ ResourceExists \/ HasSpecChanged \/ Patch \/ Create
    \/ DynGet \/ DynWrite
    \/ RolloutScan \/ PostDeploy \/ EndRun
    \/ Reinvoke

SpecRerun == InitRerun /\ [][NextRerun]_vars

\* One invocation for the templates of RolloutBatches, with API failures.
InitRollout ==
    InitOver(RolloutBatches, MaxFaults, 0) /\ plugin \in {"none", "quiet"} /\ unit = NoCall

NextRollout ==
    \/ BeginEnv \/ CheckConnection \/ CheckNamespace \/ StartDeploy
    \/ ApplyManifest \/ NextDoc
    \/ ResourceExists \/ HasSpecChanged \/ Patch \/ Create
    \/ RolloutScan \/ PostDeploy \/ EndRun

SpecRollout == InitRollout /\ [][NextRollout]_vars

\* One invocation with a plugin installed and with API and build failures.
InitHooks == InitWith(MaxFaults, 0) /\ plugin \in Plugins \ {"none"} /\ unit = NoCall

NextHooks ==
    \/ BeginEnv \/ CheckConnection \/ CheckNamespace \/ StartDeploy
    \/ ApplyManifest \/ NextDoc
    \/ ResourceExists \/ HasSpecChanged \/ Patch \/ Create
    \/ DynGet \/ DynWrite \/ Kubectl
    \/ RolloutScan \/ PostDeploy \/ EndRun

SpecHooks == InitHooks /\ [][NextHooks]_vars

-----------------------------------------------------------------------------
(* _has_spec_changed called on its own, over desired and live objects *)

S1 == Scalar(1)
S2 == Scalar(2)

\* maps over a subset of `keys` with values in `vals`
MapsOver(keys, vals) == UNION { { Map(f) : f \in [K -> vals] } : K \in SUBSET keys }

\* lists of at most n elements of `elems`
ListsOver(elems, n) == UNION { { List(q) : q \in [1..k -> elems] } : k \in 0..n }

\* spec.template: a nested map, null values included
TemplateValues == MapsOver({"a", "b"}, {S1, S2, None})
\* spec.ports: lists of scalars and of maps
PortValues == ListsOver({S1, Map("a" :> S1), Map("a" :> S1 @@ "b" :> S1)}, MaxListLen)

\* spec: each key absent, of its own type, or a scalar
SpecValues ==
    { Map(f) : f \in UNION {
        { g \in [K -> TemplateValues \cup PortValues \cup {S1}] :
            /\ "ports" \in K => g["ports"] \in PortValues \cup {S1}
            /\ "template" \in K => g["template"] \in TemplateValues \cup {S1} } :
        K \in SUBSET {"ports", "template"} } }

DataValues == MapsOver({"k", "j"}, {S1, S2}) \cup {Missing}

\* a manifest / a live object as _has_spec_changed sees it
Resource(kind, spec, data, annotations, immutable, binaryData) ==
    [kind |-> kind, spec |-> spec, data |-> data, annotations |-> annotations,
     immutable |-> immutable, binaryData |-> binaryData]

SpecResources ==
    { Resource("Deployment", sp, Missing, Missing, Missing, Missing) : sp \in SpecValues }

DataResources ==
    { Resource(k, Missing, d, a, i, b) :
        k \in {"ConfigMap", "Secret"}, d \in DataValues,
        a \in {Missing, Map("note" :> S1), Map("note" :> S2)},
        i \in {Missing, S1}, b \in {Missing, Map("blob" :> S1)} }

InitChanged ==
    /\ Parked
    /\ \/ \E d \in SpecResources, l \in SpecResources :
             unit = [fn |-> "_has_spec_changed", st |-> "call",
                     new_manifest |-> d, current |-> l]
       \/ \E d \in DataResources, l \in DataResources :
             /\ d.kind = l.kind
             /\ unit = [fn |-> "_has_spec_changed", st |-> "call",
                        new_manifest |-> d, current |-> l]

\* changed = self._has_spec_changed(api_client, kind, name, namespace, manifest)
CompareWithLive ==
    /\ unit.fn = "_has_spec_changed" /\ unit.st = "call"
    /\ unit' = [fn |-> unit.fn, st |-> "ret",
                new_manifest |-> unit.new_manifest, current |-> unit.current,
                changed |-> SpecDiffers(unit.new_manifest, unit.current)]
    /\ UNCHANGED engineVars

NextChanged == CompareWithLive

SpecChanged == InitChanged /\ [][NextChanged]_vars

-----------------------------------------------------------------------------
(* TemplateEngine.build_context called on its own, over configurations *)

Str(x) == Scalar(x)
EmptyDict == [k \in {} |-> None]

\* dict.update(other)
Update(d, other) ==
    [k \in DOMAIN d \cup DOMAIN other |-> IF k \in DOMAIN other THEN other[k] ELSE d[k]]

\* dictionaries over a subset of the keys of `choices`, each key with one of its values
DictsOver(choices) ==
    UNION { { f \in [K -> UNION { choices[k] : k \in DOMAIN choices }] :
                \A k \in K : f[k] \in choices[k] } : K \in SUBSET DOMAIN choices }

\* apps/<app>/config.yml as parsed
AppConfigs ==
    DictsOver([ namespace |-> {None, Str("team-a")},
                url |-> {Str("u")},
                app |-> { EmptyMap, Map("namespace" :> Str("team-b")),
                          Map("namespace" :> None), Map("url" :> Str("v")),
                          Str("api") } ])

\* environments.<env> of the main configuration
EnvValues ==
    [ namespace |-> Str("prod-ns"), replicas |-> Str("3"),
      app |-> Str("env-app"), env |-> Str("env-env"),
      global |-> Str("env-global"), config |-> Str("env-config"),
      secret |-> Str("env-secret"), component |-> Str("env-component") ]
\* every environment block over a subset of these keys
EnvConfigs == { [k \in K |-> EnvValues[k]] : K \in SUBSET DOMAIN EnvValues }

\* the top level of the main configuration
GlobalConfigs == DictsOver([ namespace |-> {Str("default-ns")} ])

\* Config.get_env_config("namespace"): the environment's value, else the global one
GetNamespace(env_config, global_config) ==
    IF "namespace" \in DOMAIN env_config /\ ~IsNone(env_config["namespace"])
    THEN env_config["namespace"]
    ELSE IF "namespace" \in DOMAIN global_config THEN global_config["namespace"]
    ELSE None

\* context["app"] after the two update() calls; "raise" when update() rejects
\* an `app` entry that is not a mapping
MergedApp(app_name, app_config) ==
    LET flat == Update("name" :> Str(app_name), app_config)
    IN  IF "app" \notin DOMAIN app_config THEN Map(flat)
        ELSE IF IsMap(app_config["app"]) THEN Map(Update(flat, app_config["app"].m))
        ELSE Str("raise")

KeepEnvNamespace(app, env_namespace) == [app |-> app, namespace |-> env_namespace]
\* `if "namespace" in context["app"]: ... else: ...`
ResolveNamespace(app, env_namespace) ==
    IF "namespace" \in DOMAIN app
    THEN [app |-> app, namespace |-> app["namespace"]]
    ELSE [app |-> Update(app, "namespace" :> env_namespace), namespace |-> env_namespace]

\* apps/<app>/<component>/config.yml (or .yaml): whether it is there, whether
\* yaml.safe_load reads it, and what it holds (None for an empty file)
ConfigFile(exists, parses, content) ==
    [exists |-> exists, parses |-> parses, content |-> content]
NoFile == ConfigFile(FALSE, FALSE, None)
BrokenFile == ConfigFile(TRUE, FALSE, None)
EmptyFile == ConfigFile(TRUE, TRUE, None)
PortFile == ConfigFile(TRUE, TRUE, Map("port" :> Str("80")))
ComponentFiles == {NoFile, BrokenFile, EmptyFile, PortFile}

\* `if component:` ... `comp_config = yaml.safe_load(f) or {}` with
\* `except (yaml.YAMLError, IOError): pass`; Missing when nothing is stored
ComponentConfig(component, component_file) ==
    IF IsNone(component) \/ ~component_file.exists \/ ~component_file.parses
    THEN Missing
    ELSE IF IsNone(component_file.content) THEN EmptyMap
    ELSE component_file.content

\* the context dictionary build_context returns
BuildContext(app_name, env, app_config, env_config, global_config, component, component_file) ==
    LET env_namespace == GetNamespace(env_config, global_config)
        resolved == ResolveNamespace(MergedApp(app_name, app_config).m, env_namespace)
        base == [ app |-> Map(resolved.app), env |-> Str(env),
                  namespace |-> resolved.namespace, global |-> EmptyMap,
                  config |-> Map(app_config), secret |-> EmptyMap ]
        comp_config == ComponentConfig(component, component_file)
        withComp == IF comp_config = Missing THEN base
                    ELSE Update(base, "component" :> comp_config)
    IN  [k \in DOMAIN withComp \cup DOMAIN env_config |->
            IF k \in DOMAIN withComp THEN withComp[k] ELSE env_config[k]]

InitContext ==
    /\ Parked
    /\ \E ac \in AppConfigs, ec \in EnvConfigs, gc \in GlobalConfigs,
          comp \in {None, Str("web")}, file \in ComponentFiles :
          /\ IsNone(comp) => file = NoFile
          /\ unit = [fn |-> "build_context", st |-> "call", app_name |-> "api",
                     env |-> "prod", app_config |-> ac, env_config |-> ec,
                     global_config |-> gc, component |-> comp,
                     component_file |-> file]

\* context = self.build_context(app_name, component_name)
BuildContextCall ==
    /\ unit.fn = "build_context" /\ unit.st = "call"
    /\ IF MergedApp(unit.app_name, unit.app_config) = Str("raise")
       THEN unit' = [unit EXCEPT !.st = "raised"]
       ELSE unit' = [fn |-> unit.fn, st |-> "ret", app_name |-> unit.app_name,
                     env |-> unit.env, app_config |-> unit.app_config,
                     env_config |-> unit.env_config,
                     global_config |-> unit.global_config,
                     component |-> unit.component,
                     component_file |-> unit.component_file,
                     context |-> BuildContext(unit.app_name, unit.env, unit.app_config,
                                              unit.env_config, unit.global_config,
                                              unit.component, unit.component_file)]
    /\ UNCHANGED engineVars

NextContext == BuildContextCall

SpecContext == InitContext /\ [][NextContext]_vars

-----------------------------------------------------------------------------
(* TemplateEngine.render_app_templates called on its own, over app directories *)

\* a component directory: whether it has a templates/ subdirectory, and the
\* template files found under it
ComponentDirs ==
    { [templates |-> FALSE, files |-> {}], [templates |-> TRUE, files |-> {}],
      [templates |-> TRUE, files |-> {"deployment"}],
      [templates |-> TRUE, files |-> {"deployment", "configmap"}] }

\* the application directory: its component directories and its flat templates/
AppDirs ==
    { [components |-> c, flat |-> f] :
        c \in UNION { [K -> ComponentDirs] : K \in SUBSET {"web", "worker"} },
        f \in { {}, {"configmap"}, {"configmap", "service"} } }

\* output_dir after `if output_dir is None and not in_memory`
OutputDir(in_memory) == IF in_memory THEN None ELSE Str("build")

\* the component directories the loop renders
WithTemplates(app_dir) ==
    { c \in DOMAIN app_dir.components : app_dir.components[c].templates }

\* rendered_templates: relative output path -> the template it was rendered from
RenderedTemplates(app_dir) ==
    LET comp == UNION { { <<c, f>> : f \in app_dir.components[c].files } :
                          c \in WithTemplates(app_dir) }
        flat == { <<f>> : f \in app_dir.flat }
    IN  [k \in comp \cup flat |-> [template |-> k]]

\* directories and files created under the output directory
Written(app_dir, output_dir) ==
    IF IsNone(output_dir) THEN {}
    ELSE {<<>>} \cup { <<c>> : c \in WithTemplates(app_dir) }
                \cup DOMAIN RenderedTemplates(app_dir)

\* `component_output_dir = output_dir / component_name` raises TypeError when
\* output_dir is None
NoComponentOutputDir(output_dir) == IsNone(output_dir)

\* the files an earlier build left under build/<app_name>
PriorBuilds == { {}, {<<"old">>}, {<<"web", "deployment">>, <<"web", "old">>} }
\* the files under build/<other application>
OtherBuilds == { {}, {<<"configmap">>} }

OutputKept(prior_files) == prior_files
\* `if output_dir.exists(): shutil.rmtree(output_dir)` and
\* ensure_directory(output_dir): what is left of the earlier build
ClearedOutput(prior_files) == {}

\* the files under build/<app_name> when render_app_templates returns
BuildFiles(app_dir, output_dir, prior_files) ==
    IF IsNone(output_dir) THEN prior_files
    ELSE ClearedOutput(prior_files) \cup DOMAIN RenderedTemplates(app_dir)

InitRender ==
    /\ Parked
    /\ \E a \in AppDirs, mem \in BOOLEAN, there \in BOOLEAN, prior \in BOOLEAN,
          old \in PriorBuilds, other \in OtherBuilds :
          /\ ~there => (a.components = << >> /\ a.flat = {})
          /\ ~prior => old = {}
          /\ unit = [fn |-> "render_app_templates", st |-> "call", app_dir |-> a,
                     in_memory |-> mem, app_dir_exists |-> there, prior_build |-> prior,
                     prior_files |-> old, other_build |-> other]

\* engine.render_app_templates(app_name, in_memory=...)
RenderAppTemplates ==
    /\ unit.fn = "render_app_templates" /\ unit.st = "call"
    /\ LET output_dir == OutputDir(unit.in_memory)
           done(st, err, out, wr, cl) ==
               [fn |-> unit.fn, st |-> st, app_dir |-> unit.app_dir,
                in_memory |-> unit.in_memory, app_dir_exists |-> unit.app_dir_exists,
                prior_build |-> unit.prior_build, prior_files |-> unit.prior_files,
                other_build |-> unit.other_build, error |-> err,
                rendered_templates |-> out, written |-> wr, cleared |-> cl,
                build_files |-> IF st = "ret"
                                THEN BuildFiles(unit.app_dir, output_dir, unit.prior_files)
                                ELSE IF cl THEN ClearedOutput(unit.prior_files)
                                ELSE unit.prior_files,
                other_files |-> unit.other_build]
           cleared == ~IsNone(output_dir) /\ ~unit.in_memory /\ unit.prior_build
       IN  IF ~unit.app_dir_exists
           THEN unit' = done("raised", "TemplateError", << >>, {}, FALSE)
           ELSE IF WithTemplates(unit.app_dir) /= {} /\ NoComponentOutputDir(output_dir)
           THEN unit' = done("raised", "TypeError", << >>,
                             IF IsNone(output_dir) THEN {} ELSE {<<>>}, cleared)
           ELSE unit' = done("ret", "", RenderedTemplates(unit.app_dir),
                             Written(unit.app_dir, output_dir), cleared)
    /\ UNCHANGED engineVars

NextRender == RenderAppTemplates

SpecRender == InitRender /\ [][NextRender]_vars

-----------------------------------------------------------------------------
(* _apply_via_kubectl on its own: the resource applied, what the command     *)
(* reports for it and the exit status of the command                         *)

KubectlNames == {"w", "web", "created-items", "configured-items"}
KubectlKinds == {"Widget", "Deployment", "ConfigMap"}
KubectlResults == {"created", "configured", "unchanged"}

InitKubectl ==
    /\ Parked
    /\ \E kind \in KubectlKinds, name \in KubectlNames, result \in KubectlResults,
          returncode \in {0, 1} :
          unit = [fn |-> "_apply_via_kubectl", st |-> "call", kind |-> kind,
                  name |-> name, result |-> result, returncode |-> returncode]

\* result = subprocess.run(cmd, ...); `if result.returncode == 0:` ... `else:`
ApplyViaKubectl ==
    /\ unit.fn = "_apply_via_kubectl" /\ unit.st = "call"
    /\ unit' = [fn |-> unit.fn, st |-> "ret", kind |-> unit.kind, name |-> unit.name,
                result |-> unit.result, returncode |-> unit.returncode,
                status |-> KubectlReturn(IF unit.returncode = 0 THEN "none" ELSE "exit",
                                         KubectlStdout(unit.kind, unit.name, unit.result))]
    /\ UNCHANGED engineVars

NextKubectl == ApplyViaKubectl

SpecKubectl == InitKubectl /\ [][NextKubectl]_vars

-----------------------------------------------------------------------------
(* deploy(): the choice of the environments to deploy to                     *)

\* the environments a configuration may declare, in the order of the file
EnvOrder == <<"dev", "staging", "prod">>
AppNames == {"api", "web"}

\* the block of one environment: not declared, or declared with its `apps` list
\* (env_config.get("apps", []) makes a missing list an empty one)
NoEnvironment == [declared |-> FALSE, apps |-> {}]
Environment(apps) == [declared |-> TRUE, apps |-> apps]

\* the `environments` mapping of kdeploy.yaml
EnvironmentMaps ==
    [ {EnvOrder[i] : i \in DOMAIN EnvOrder} ->
        {NoEnvironment} \cup {Environment(a) : a \in SUBSET AppNames} ]

\* list(environments.keys())
EnvironmentKeys(environments) ==
    SelectSeq(EnvOrder, LAMBDA e : environments[e].declared)

\* _find_environments_for_app
FindEnvironmentsForApp(environments, app_name) ==
    SelectSeq(EnvOrder, LAMBDA e : /\ environments[e].declared
                                   /\ app_name \in environments[e].apps)

\* envs_to_deploy as deploy() computes it; "" stands for an option or argument
\* that was not given, "exit" for sys.exit(1)
EnvsToDeploy(deploy_all, app_name, env, environments) ==
    IF deploy_all THEN EnvironmentKeys(environments)
    ELSE IF app_name /= ""
    THEN IF env /= "" THEN <<env>>
         ELSE LET found == FindEnvironmentsForApp(environments, app_name)
              IN  IF found = <<>> THEN EnvironmentKeys(environments) ELSE found
    ELSE <<"exit">>

InitTargets ==
    /\ Parked
    /\ \E environments \in EnvironmentMaps, app_name \in {"", "api"},
          env \in {"", "prod"}, deploy_all \in BOOLEAN :
          unit = [fn |-> "envs_to_deploy", st |-> "call", deploy_all |-> deploy_all,
                  app_name |-> app_name, env |-> env, environments |-> environments]

\* deploy() up to `for target_env in envs_to_deploy`
ChooseEnvironments ==
    /\ unit.fn = "envs_to_deploy" /\ unit.st = "call"
    /\ LET envs == EnvsToDeploy(unit.deploy_all, unit.app_name, unit.env,
                                unit.environments)
       IN  unit' = [fn |-> unit.fn,
                    st |-> IF envs = <<"exit">> THEN "raised" ELSE "ret",
                    deploy_all |-> unit.deploy_all, app_name |-> unit.app_name,
                    env |-> unit.env, environments |-> unit.environments,
                    envs_to_deploy |-> IF envs = <<"exit">> THEN <<>> ELSE envs]
    /\ UNCHANGED engineVars

NextTargets == ChooseEnvironments

SpecTargets == InitTargets /\ [][NextTargets]_vars

-----------------------------------------------------------------------------
(* Vocabulary of the properties *)

\* the kinds the specification lists for the dispatch table
DispatchTable == {"Deployment", "Service", "ConfigMap", "Secret", "Ingress",
                  "PodDisruptionBudget"}

InBatch == pc \in {"manifest", "doc", "exists", "diff", "patch", "create", "dyn_get",
                   "dyn_patch", "dyn_create", "kubectl", "rollout", "post"}
BatchApplied == pc \in {"rollout", "post"}

\* the calls of operation `op` issued for one document of the current batch
CallsFor(e, op) ==
    { i \in DOMAIN calls :
        calls[i].env = e.env /\ calls[i].m = e.m /\ calls[i].d = e.d /\ calls[i].op = op }

\* the document outcomes of manifest k of the current batch
DocsOf(k) == { i \in DOMAIN docLog : docLog[i].m = k }

ValidDoc(d) == d.shape = "map" /\ ~MissingFields(d)

-----------------------------------------------------------------------------
(* C1 *)

\* the kinds C1 speaks of: dispatch-table kinds and kinds sent to the fallback
TypedOrFallback(b) ==
    \A d \in NamedDocs(b) :
        d.kind \in DispatchTable \/ ClientFor(d.apiVersion) = "dynamic"

\* C1: when a batch of valid manifests (typed kinds, fallback kinds, one or
\* several documents per manifest) is reconciled a second time (no dry-run, no
\* external actor, no API failure), the second pass reports no Created, no
\* Configured and no Error: every manifest is Unchanged.
C1_SecondPassAllUnchanged ==
    (/\ pc = "post" /\ run >= 2 /\ ~dry_run
     /\ ValidBatch(batch) /\ TypedOrFallback(batch)
     /\ lastStats[Env] /= NoStats)
        => (stats.created = 0 /\ stats.configured = 0 /\ stats.error = 0)

-----------------------------------------------------------------------------
(* C2 *)

\* manifest k of the batch failed: it did not parse, applying it raised, or one of
\* its documents ended in an API error
ManifestFailed(k) ==
    \/ mLog[k].raised
    \/ \E i \in DocsOf(mLog[k].m) : docLog[i].status = "error" /\ docLog[i].apiFail

\* C2: every manifest of the batch is attempted exactly once, in order, whatever
\* happened to the ones before it, and a manifest that failed (parse failure, API
\* error, exception) is recorded as one Error.
C2_EachAttemptedFailuresRecorded ==
    /\ InBatch => \A k \in DOMAIN mLog : mLog[k].m = k
    /\ BatchApplied => Len(mLog) = Len(sorted_templates)
    /\ InBatch => \A k \in DOMAIN mLog : ManifestFailed(k) => mLog[k].status = "error"

-----------------------------------------------------------------------------
(* C3 *)

\* C3: if any document of the batch ended in an error outcome, the error counter
\* is at least 1 at the end of the batch and the deploy is reported as failed.
C3_ErrorOutcomeCounted ==
    /\ (pc = "post" /\ \E i \in DOMAIN docLog : docLog[i].status = "error")
          => stats.error >= 1
    /\ (pc \in {"env", "exited"} /\ \E i \in DOMAIN docLog : docLog[i].status = "error")
          => ~overall_success

-----------------------------------------------------------------------------
(* C4 *)

\* the case of C4: a valid document of a dispatch-table kind, absent from the
\* cluster when its apply began, applied without dry-run and without API failure
AbsentTypedCase(e) ==
    /\ ValidDoc(e.doc)
    /\ e.doc.kind \in DispatchTable
    /\ e.absent
    /\ ~e.apiFail
    /\ ~dry_run

\* C4: such a document gets exactly one create call and no patch call, its
\* outcome is Created (and so is its manifest's, when it is the only document),
\* and the object exists when the apply returns.
C4_AbsentResourceCreatedOnce ==
    InBatch =>
      /\ \A i \in DOMAIN docLog :
            AbsentTypedCase(docLog[i]) =>
              /\ docLog[i].status = "created"
              /\ Cardinality(CallsFor(docLog[i], "create")) = 1
              /\ CallsFor(docLog[i], "patch") = {}
              /\ (i = Len(docLog) /\ pc = "doc" /\ docLog[i].m = mIdx)
                    => ObjId(DocNamespace(docLog[i].doc, Namespace), docLog[i].doc)
                          \in DOMAIN cluster
      /\ \A k \in DOMAIN mLog :
            (/\ Len(sorted_templates[k].docs) = 1
             /\ \E i \in DocsOf(k) : AbsentTypedCase(docLog[i]))
               => mLog[k].status = "created"

C4_Witness ==
    /\ pc = "doc"
    /\ \E i \in DOMAIN docLog :
          /\ AbsentTypedCase(docLog[i])
          /\ docLog[i].status = "created"
          /\ i = Len(docLog)
          /\ Cardinality(CallsFor(docLog[i], "create")) = 1
          /\ ObjId(DocNamespace(docLog[i].doc, Namespace), docLog[i].doc) \in DOMAIN cluster

-----------------------------------------------------------------------------
(* C5 *)

\* C5: when the typed create call returns 409 Conflict (the object appeared
\* after the existence check), the document's outcome is Unchanged, not Error,
\* and a manifest made of that document does not raise the error counter.
C5_CreateConflictIsUnchanged ==
    InBatch =>
      /\ \A i \in DOMAIN docLog :
            (docLog[i].conflict /\ docLog[i].tiers = {}) => docLog[i].status = "unchanged"
      /\ \A k \in DOMAIN mLog :
            (/\ Len(sorted_templates[k].docs) = 1
             /\ \E i \in DocsOf(k) : docLog[i].conflict /\ docLog[i].tiers = {})
               => mLog[k].status = "unchanged"

C5_Witness ==
    /\ pc = "post"
    /\ stats.error = 0
    /\ \E i \in DOMAIN docLog :
          docLog[i].conflict /\ docLog[i].tiers = {} /\ docLog[i].absent

-----------------------------------------------------------------------------
(* C6 *)

\* C6: a valid document whose kind has no entry in the dispatch table is handed
\* to the fallback (dynamic client first); it gets no outcome, and no Error in
\* particular, without the fallback having been attempted.
C6_UnknownKindGoesToFallback ==
    InBatch =>
      \A i \in DOMAIN docLog :
          (ValidDoc(docLog[i].doc) /\ docLog[i].doc.kind \notin DispatchTable)
              => "dynamic" \in docLog[i].tiers

-----------------------------------------------------------------------------
(* C7 *)

\* the Deployment documents of the batch
BatchDeployments ==
    { d \in NamedDocs(batch) : d.kind = "Deployment" }

\* rollout-restart patches issued in this batch for Deployment d
RolloutCalls(d) ==
    { i \in DOMAIN calls :
        /\ calls[i].op = "rollout"
        /\ calls[i].env = Env
        /\ calls[i].id.kind = "Deployment" /\ calls[i].id.name = d.name }

ConfigChangeRecorded ==
    \E k \in DOMAIN mLog :
        /\ mLog[k].status = "configured"
        /\ \/ PathHas(sorted_templates[k].path, "configmap")
           \/ PathHas(sorted_templates[k].path, "secret")

\* C7: in a non-dry-run batch where a manifest with "configmap" or "secret" in its
\* path ended Configured, after the batch exactly one rollout-restart patch has
\* been issued for every Deployment document of the batch, whatever the path of
\* the manifest holding it.
C7_RolloutForEveryDeployment ==
    (pc = "post" /\ ~dry_run /\ ConfigChangeRecorded)
        => \A d \in BatchDeployments : Cardinality(RolloutCalls(d)) = 1

-----------------------------------------------------------------------------
(* C8 *)

\* C8: under dry-run every mutating call carries the dry-run flag and no rollout
\* restart is issued, so that the cluster equals the cluster before the run as
\* long as no other actor wrote to it.
C8_DryRunLeavesClusterAlone ==
    dry_run =>
      /\ \A i \in DOMAIN calls : calls[i].dry /\ calls[i].op /= "rollout"
      /\ (extLeft = MaxExt) => cluster = cluster0

C8_Witness ==
    /\ dry_run
    /\ pc = "post"
    /\ needs_rollout
    /\ extLeft = MaxExt
    /\ \E i \in DOMAIN calls : calls[i].op = "patch" /\ calls[i].ok /\ calls[i].dry
    /\ \E i \in DOMAIN batch :
          PathHas(batch[i].path, "deployment") /\ batch[i].docs[1].kind = "Deployment"

-----------------------------------------------------------------------------
(* C9 *)

\* C9: templates are rendered and mutating calls are issued only for an
\* environment whose connection check and namespace check both succeeded earlier
\* in the run; an environment whose preflight failed has no call at all and the
\* run is marked as failed.
C9_NothingBeforePreflight ==
    /\ rendered \subseteq passed
    /\ \A i \in DOMAIN calls : calls[i].env \in passed
    /\ \A e \in preFailed :
          /\ e \notin rendered
          /\ \A i \in DOMAIN calls : calls[i].env /= e
          /\ ~overall_success \/ exit_code = 1
          /\ pc = "exited" => exit_code = 1

C9_Witness ==
    /\ pc = "exited"
    /\ "staging" \in preFailed
    /\ "prod" \in passed
    /\ \E i \in DOMAIN calls : calls[i].env = "prod" /\ calls[i].ok

-----------------------------------------------------------------------------
(* C10 *)

\* C10: a preflight failure of one environment (credentials, connection,
\* namespace check failing or raising) does not keep the following environments
\* from being processed: when the run ends every target environment has had its
\* own preflight.
C10_LaterEnvironmentsStillProcessed ==
    (pc = "exited" /\ preFailed /= {})
        => \A i \in DOMAIN TargetEnvs : TargetEnvs[i] \in started

-----------------------------------------------------------------------------
(* C11 *)

Compared == unit.fn = "_has_spec_changed" /\ unit.st = "ret"

RECURSIVE Differs(_, _)
\* some key of `desired` is missing from `live` or holds a different value; for
\* lists: another length, or a differing element at some position
Differs(desired, live) ==
    IF IsMap(desired) /\ IsMap(live)
    THEN \E k \in DOMAIN desired.m :
            k \notin DOMAIN live.m \/ Differs(desired.m[k], live.m[k])
    ELSE IF IsList(desired) /\ IsList(live)
    THEN \/ Len(desired.l) /= Len(live.l)
         \/ \E i \in DOMAIN desired.l : Differs(desired.l[i], live.l[i])
    ELSE desired /= live

\* C11: for specs built from nested maps, lists and scalars, changed() is false
\* when the live spec is the desired spec plus extra keys at any map depth, and
\* true when a desired key is missing from the live spec or holds another value
\* (lists: another length, another order, a differing element).
C11_ChangedIffDesiredKeyDiffers ==
    (Compared /\ unit.new_manifest.kind = "Deployment")
        => (unit.changed <=> Differs(unit.new_manifest.spec, unit.current.spec))

\* unchanged although the live spec has extra keys in a nested map and in a list element
C11_Witness ==
    /\ Compared /\ unit.new_manifest.kind = "Deployment"
    /\ ~unit.changed
    /\ unit.new_manifest.spec = Map("ports" :> List(<<S1, Map("a" :> S1)>>)
                                    @@ "template" :> Map("a" :> S2))
    /\ unit.current.spec = Map("ports" :> List(<<S1, Map("a" :> S1 @@ "b" :> S1)>>)
                               @@ "template" :> Map("a" :> S2 @@ "b" :> S1))

-----------------------------------------------------------------------------
(* C12 *)

\* the `data` of a manifest or live object, an absent one being empty
DataOf(r) == IF r.data = Missing THEN EmptyMap ELSE r.data

\* C12: for a ConfigMap or Secret changed() is true exactly when the desired data
\* differs from the live data; annotations, the immutability flag and binary data
\* have no part in it.
C12_OnlyDataDecides ==
    (Compared /\ unit.new_manifest.kind \in {"ConfigMap", "Secret"})
        => (unit.changed <=> DataOf(unit.new_manifest) /= DataOf(unit.current))

\* same data, every other field different: not changed
C12_Witness ==
    /\ Compared /\ unit.new_manifest.kind = "ConfigMap"
    /\ ~unit.changed
    /\ unit.new_manifest.data /= Missing
    /\ unit.new_manifest.annotations /= unit.current.annotations
    /\ unit.new_manifest.immutable /= unit.current.immutable
    /\ unit.new_manifest.binaryData /= unit.current.binaryData

-----------------------------------------------------------------------------
(* C13 *)

Outcomes == {"created", "configured", "unchanged", "error"}

\* the documents of manifest k were all handed to _apply_resource
AllDocsApplied(k) ==
    /\ sorted_templates[k].yamlOK
    /\ \A j \in DOMAIN sorted_templates[k].docs : sorted_templates[k].docs[j].shape = "map"

\* C13: the fallback returns an outcome for every document it is given and raises
\* nothing: a failed call of the dynamic client is followed by the external command,
\* and a failure of the external command (temp file, launch, timeout, non-zero
\* exit) gives the outcome Error.
C13_FallbackAlwaysReturns ==
    InBatch =>
      /\ \A i \in DOMAIN docLog :
            "dynamic" \in docLog[i].tiers =>
              /\ docLog[i].status \in Outcomes
              /\ (\E op \in {"create", "patch"}, c \in DOMAIN calls :
                     c \in CallsFor(docLog[i], op) /\ ~calls[c].ok)
                    => "kubectl" \in docLog[i].tiers
              /\ "kubectl" \notin docLog[i].tiers
                    => /\ docLog[i].status \in {"created", "configured"}
                       /\ \E op \in {"create", "patch"}, c \in DOMAIN calls :
                             c \in CallsFor(docLog[i], op) /\ calls[c].ok
              /\ docLog[i].cause /= "none" => docLog[i].status = "error"
      /\ \A k \in DOMAIN mLog :
            AllDocsApplied(k) =>
              /\ ~mLog[k].raised
              /\ Cardinality(DocsOf(k)) = Len(sorted_templates[k].docs)

C13_Witness ==
    /\ pc = "post"
    /\ \E i \in DOMAIN docLog :
          /\ docLog[i].tiers = {"dynamic", "kubectl"}
          /\ docLog[i].cause = "timeout"
          /\ docLog[i].status = "error"
    /\ \A k \in DOMAIN mLog : ~mLog[k].raised

-----------------------------------------------------------------------------
(* C14 *)

\* C14: once the external-apply fallback has returned for a document, however it
\* ended, the temporary manifest file it created no longer exists.
C14_TempFileRemoved ==
    \A i \in DOMAIN docLog :
        "kubectl" \in docLog[i].tiers =>
            [env |-> docLog[i].env, m |-> docLog[i].m, d |-> docLog[i].d] \notin temp_files

-----------------------------------------------------------------------------
(* C15 *)

\* the path of the manifest recorded k-th in this batch
AppliedPath(k) == sorted_templates[mLog[k].m].path

Applying == pc \in {"doc", "exists", "diff", "patch", "create", "dyn_get", "dyn_patch",
                    "dyn_create", "kubectl"}

\* C15: the manifests of a batch are applied one at a time in ascending order of
\* their relative path, whatever the order the renderer produced them in: while
\* a manifest is being applied every manifest with a smaller path, and no other,
\* has its outcome; at the end each manifest of the batch has been applied once.
C15_AppliedInPathOrder ==
    /\ InBatch => \A k, l \in DOMAIN mLog : k < l => PathLess(AppliedPath(k), AppliedPath(l))
    /\ Applying =>
          \A i \in DOMAIN batch :
              PathLess(batch[i].path, CurManifest.path)
                  <=> \E k \in DOMAIN mLog : AppliedPath(k) = batch[i].path
    /\ InBatch => \A c, e \in DOMAIN calls :
          (c < e /\ calls[c].env = Env /\ calls[e].env = Env
             /\ calls[c].op /= "rollout" /\ calls[e].op /= "rollout")
            => calls[c].m <= calls[e].m
    /\ BatchApplied =>
          \A i \in DOMAIN batch :
              Cardinality({ k \in DOMAIN mLog : AppliedPath(k) = batch[i].path }) = 1

\* a batch the renderer produced in another order, applied to the end
C15_Witness ==
    /\ pc = "post"
    /\ \E i, j \in DOMAIN batch : i < j /\ PathLess(batch[j].path, batch[i].path)
    /\ Len(mLog) = Len(batch)
    /\ Len(calls) >= 2

-----------------------------------------------------------------------------
(* C16 *)

ContextBuilt == unit.fn = "build_context" /\ unit.st = "ret"

\* the application-level namespace of the merged application configuration: the
\* nested app.namespace, else the flat namespace; Missing when neither is there
AppLevelNamespace(cfg) ==
    IF "app" \in DOMAIN cfg /\ "namespace" \in DOMAIN cfg["app"].m
    THEN cfg["app"].m["namespace"]
    ELSE IF "namespace" \in DOMAIN cfg THEN cfg["namespace"]
    ELSE Missing

\* the namespace of the environment: environments.<env>.namespace, else the
\* top-level namespace, else None
EnvironmentNamespace ==
    IF "namespace" \in DOMAIN unit.env_config THEN unit.env_config["namespace"]
    ELSE IF "namespace" \in DOMAIN unit.global_config THEN unit.global_config["namespace"]
    ELSE None

\* C16: in the built context namespace and app.namespace are equal: both are the
\* application-level namespace when the merged application configuration sets
\* one, and both are the environment's namespace otherwise.
C16_NamespaceAgrees ==
    ContextBuilt =>
      /\ "namespace" \in DOMAIN unit.context["app"].m
      /\ unit.context["namespace"] = unit.context["app"].m["namespace"]
      /\ unit.context["namespace"] =
            IF AppLevelNamespace(unit.app_config) /= Missing
            THEN AppLevelNamespace(unit.app_config)
            ELSE EnvironmentNamespace

\* app.namespace unset, environment namespace prod-ns
C16_Witness ==
    /\ ContextBuilt
    /\ AppLevelNamespace(unit.app_config) = Missing
    /\ "app" \in DOMAIN unit.app_config
    /\ unit.context["namespace"] = Str("prod-ns")
    /\ unit.context["app"].m["namespace"] = Str("prod-ns")

-----------------------------------------------------------------------------
(* C17 *)

\* every template file of the component subtrees and of the flat directory, by
\* relative output path
TemplateFiles(app_dir) ==
    UNION { { <<c, f>> : f \in app_dir.components[c].files } :
              c \in DOMAIN app_dir.components }
      \cup { <<f>> : f \in app_dir.flat }

\* C17: in ephemeral mode rendering an application returns the rendered text of
\* every template file of the component subtrees and of the flat templates
\* directory, keyed by relative output path, and writes nothing.
C17_EphemeralRenderReturnsAll ==
    (/\ unit.fn = "render_app_templates" /\ unit.st /= "call"
     /\ unit.in_memory /\ unit.app_dir_exists)
        => /\ unit.st = "ret"
           /\ DOMAIN unit.rendered_templates = TemplateFiles(unit.app_dir)
           /\ unit.written = {} /\ ~unit.cleared

-----------------------------------------------------------------------------
(* C18 *)

\* BatchStats as the outcomes of the manifests alone determine them
CountedStats ==
    [st \in Outcomes |-> Cardinality({ k \in DOMAIN mLog : mLog[k].status = st })]

\* the batch of environment e has been applied in this invocation
BatchFinished(e) == \E i \in DOMAIN TargetEnvs : TargetEnvs[i] = e /\ i < envIdx

\* C18: an exception raised by a hook implementation is caught inside the hook
\* runner; the deploy goes through the same steps, and BatchStats and the success
\* flag are what the outcomes of the manifests alone make them, as in a run with
\* no hook installed.
C18_HookFailureInvisible ==
    /\ \A i \in DOMAIN hookLog : hookLog[i].raised => hookLog[i].caught
    /\ InBatch => stats = CountedStats
    /\ \A e \in rendered :
          BatchFinished(e) =>
              /\ lastStats[e].error > 0 => ~overall_success
              /\ plugin /= "none" =>
                    \E i \in DOMAIN hookLog :
                        hookLog[i].env = e /\ hookLog[i].hook = "kdeploy_post_deploy"
    /\ (pc = "exited" /\ exit_code = 1 /\ overall_success)
          => (~persist_build /\ HasComponentDir)
    /\ (pc = "exited" /\ exit_code = 0)
          => \A i \in DOMAIN TargetEnvs :
                /\ TargetEnvs[i] \in rendered
                /\ lastStats[TargetEnvs[i]].error = 0

\* both environments deployed with a hook implementation raising at all four calls
C18_Witness ==
    /\ plugin = "raising"
    /\ pc = "exited" /\ exit_code = 0
    /\ Len(hookLog) = 4
    /\ \A i \in DOMAIN hookLog : hookLog[i].raised /\ hookLog[i].caught

\* the environments the command was asked to deploy to
AllEnvs == {TargetEnvs[i] : i \in DOMAIN TargetEnvs}
\* a document of the batch in progress ended in an Error outcome
ResourceFailed == \E i \in DOMAIN docLog : docLog[i].status = "error"

\* C19: the command exits non-zero whenever an environment failed preflight or a
\* batch ended with a failed build or a failed resource; the success flag is true
\* only while nothing has failed; and a failed resource skips neither the
\* manifests nor the environments that follow it.
C19_FailureGivesNonZeroExit ==
    /\ pc = "exited" =>
          ((\/ preFailed /= {}
            \/ passed \ rendered /= {}
            \/ ResourceFailed
            \/ \E e \in AllEnvs : lastStats[e] /= NoStats /\ lastStats[e].error > 0)
              => exit_code = 1)
    /\ overall_success =>
          /\ \A e \in preFailed : e = Env /\ pc = "exited"
          /\ \A e \in AllEnvs :
                BatchFinished(e) => (e \in rendered /\ lastStats[e].error = 0)
    /\ (pc = "exited" /\ preFailed = {} /\ (persist_build \/ ~HasComponentDir))
          => \A e \in AllEnvs : e \in started
    /\ BatchApplied => Len(mLog) = Len(batch)

\* a document without kind, apiVersion or metadata.name
Incomplete(d) == d.kind = "" \/ d.apiVersion = <<>> \/ d.name = ""
\* the steps of apply_manifest that read or write the cluster for the document
CallingCluster == pc \in {"exists", "diff", "patch", "create", "dyn_get", "dyn_patch",
                          "dyn_create", "kubectl"}

\* C20: a document whose kind, apiVersion or metadata.name is missing or empty
\* ends in an Error outcome, and no read, create, patch or fallback apply is
\* made for it.
C20_IncompleteDocNoClusterCall ==
    /\ CallingCluster => ~Incomplete(CurDoc)
    /\ \A i \in DOMAIN docLog :
          Incomplete(docLog[i].doc) =>
              /\ docLog[i].status = "error"
              /\ docLog[i].tiers = {}
              /\ ~docLog[i].apiFail /\ ~docLog[i].conflict
    /\ \A i \in DOMAIN calls : calls[i].id.kind /= "" /\ calls[i].id.name /= ""

\* documents without a kind, without an apiVersion and without a name were applied
C20_Witness ==
    /\ \E i \in DOMAIN docLog : docLog[i].doc.kind = "" /\ docLog[i].status = "error"
    /\ \E i \in DOMAIN docLog : docLog[i].doc.apiVersion = <<>> /\ docLog[i].status = "error"
    /\ pc = "post"

\* the manifests of the batch whose text is not a valid YAML stream
Malformed == {k \in DOMAIN sorted_templates : ~sorted_templates[k].yamlOK}

\* C21: a manifest whose text is not a valid YAML stream is rejected as a whole:
\* no document of it is applied and no cluster call is made for it, not even for
\* the documents before the syntax error, and it counts as one Error.
C21_MalformedManifestRejected ==
    (InBatch /\ Env \in rendered) =>
        \A k \in Malformed :
            /\ \A i \in DOMAIN calls : ~(calls[i].env = Env /\ calls[i].m = k)
            /\ \A i \in DOMAIN docLog : docLog[i].m /= k
            /\ (pc \in {"doc", "exists", "diff", "patch", "create", "dyn_get", "dyn_patch",
                        "dyn_create", "kubectl"}) => mIdx /= k
            /\ \A i \in DOMAIN mLog :
                  mLog[i].m = k => (mLog[i].status = "error" /\ mLog[i].raised)
            /\ Cardinality({i \in DOMAIN mLog : mLog[i].m = k}) = (IF mIdx > k THEN 1 ELSE 0)
            /\ stats = CountedStats

\* the batch with a malformed manifest that holds a well-formed document before
\* the syntax error was applied to the end
C21_Witness ==
    /\ pc = "post"
    /\ \E k \in Malformed :
          /\ Len(sorted_templates[k].docs) > 0
          /\ \E i \in DOMAIN mLog : mLog[i].m = k /\ mLog[i].status = "error"
    /\ stats.error = 1

RECURSIVE ResourceDocs(_)
\* the number of resource documents (non-empty YAML documents) of the manifests
ResourceDocs(ms) ==
    IF ms = <<>> THEN 0
    ELSE Cardinality({j \in DOMAIN Head(ms).docs : Head(ms).docs[j].shape /= "empty"})
         + ResourceDocs(Tail(ms))

\* C22: when a batch has been applied, created + configured + unchanged + error
\* equals the number of resource documents of the batch.
C22_OneOutcomePerDocument ==
    (BatchApplied /\ ValidBatch(batch)) =>
        stats.created + stats.configured + stats.unchanged + stats.error
            = ResourceDocs(batch)

\* build_context was called for a component whose config file exists but
\* cannot be parsed
UnparseableComponentConfig ==
    /\ unit.fn = "build_context"
    /\ ~IsNone(unit.component)
    /\ unit.component_file.exists /\ ~unit.component_file.parses

\* C23: build_context fails whenever the component-level config file exists but
\* cannot be parsed; it never returns a context for such a call.
C23_UnparseableComponentFails ==
    UnparseableComponentConfig => unit.st /= "ret"

\* the keys build_context reserves for its own layers
ReservedKeys == {"app", "env", "namespace", "global", "config", "secret", "component"}

\* C30: no reserved key of the environment block reaches the context (component
\* is absent when no component config was loaded), and every other key of the
\* environment block is in the context with its environment value.
C30_ReservedKeysNotOverwritten ==
    ContextBuilt =>
        /\ \A k \in DOMAIN unit.env_config \ ReservedKeys :
              k \in DOMAIN unit.context /\ unit.context[k] = unit.env_config[k]
        /\ \A k \in (DOMAIN unit.env_config \cap ReservedKeys) \ {"namespace", "component"} :
              k \in DOMAIN unit.context /\ unit.context[k] /= unit.env_config[k]
        /\ unit.context["env"] = Str(unit.env)
        /\ unit.context["config"] = Map(unit.app_config)
        /\ "name" \in DOMAIN unit.context["app"].m
        /\ IF ~IsNone(unit.component) /\ unit.component_file.exists
              /\ unit.component_file.parses
           THEN /\ "component" \in DOMAIN unit.context
                /\ unit.context["component"] \in {EmptyMap, unit.component_file.content}
           ELSE "component" \notin DOMAIN unit.context

\* the comparison was made for a desired spec whose only field is template.a,
\* against a live spec whose template is a map
OneFieldCompared ==
    /\ Compared /\ unit.new_manifest.kind = "Deployment"
    /\ DOMAIN unit.new_manifest.spec.m = {"template"}
    /\ IsMap(unit.new_manifest.spec.m["template"])
    /\ DOMAIN unit.new_manifest.spec.m["template"].m = {"a"}
    /\ "template" \in DOMAIN unit.current.spec.m
    /\ IsMap(unit.current.spec.m["template"])

DesiredField == unit.new_manifest.spec.m["template"].m["a"]
\* the live field, None standing for an absent one as well
LiveField ==
    LET live == unit.current.spec.m["template"].m
    IN  IF "a" \in DOMAIN live THEN live["a"] ELSE None

\* C26: a desired None equals a live field that is None or absent; a desired
\* value that is not None differs from a live None or absent field, and a desired
\* None differs from a live value that is not None.
C26_NoneEqualsAbsent ==
    OneFieldCompared =>
        /\ (IsNone(DesiredField) /\ IsNone(LiveField)) => ~unit.changed
        /\ (~IsNone(DesiredField) /\ IsNone(LiveField)) => unit.changed
        /\ (IsNone(DesiredField) /\ ~IsNone(LiveField)) => unit.changed

\* the create and patch calls logged for document d of manifest m in this batch
WritesFor(m, d) ==
    {i \in DOMAIN calls :
        /\ calls[i].env = Env /\ calls[i].m = m /\ calls[i].d = d
        /\ calls[i].op \in {"create", "patch", "kubectl"}}

\* the apply of a document ends at the diff step
EndsAtDiff == pc = "diff" /\ Len(docLog') = Len(docLog) + 1

\* C24: for a typed-kind resource that exists and whose diff reports no change,
\* the apply returns Unchanged, issues no create or patch call, and leaves the
\* cluster as it was.
C24_UnchangedWithoutWrite ==
    /\ [](InBatch =>
            \A i \in DOMAIN docLog :
                docLog[i].diff = "same" =>
                    /\ docLog[i].status = "unchanged"
                    /\ WritesFor(docLog[i].m, docLog[i].d) = {})
    /\ [](pc \in {"patch", "create"} => inflight.diff /= "same")
    /\ [][EndsAtDiff =>
            /\ docLog'[Len(docLog')].diff = "same"
            /\ docLog'[Len(docLog')].status = "unchanged"
            /\ cluster' = cluster /\ calls' = calls]_vars

\* both environments hold the objects already: a second invocation finds a
\* ConfigMap unchanged
C24_Witness ==
    /\ pc = "post"
    /\ \E i \in DOMAIN docLog :
          /\ docLog[i].diff = "same" /\ docLog[i].status = "unchanged"
          /\ docLog[i].doc.kind = "ConfigMap" /\ ~docLog[i].absent

\* C25: when the read of the live object in the diff step fails with an error
\* other than not-found, the resource counts as changed and a patch call is
\* attempted; it is never reported Unchanged without a patch attempt.
C25_ReadErrorForcesPatch ==
    /\ inflight.diff = "failed" => pc = "patch"
    /\ InBatch =>
          \A i \in DOMAIN docLog :
              docLog[i].diff = "failed" =>
                  \E c \in WritesFor(docLog[i].m, docLog[i].d) : calls[c].op = "patch"

\* the read failed, the patch that followed went through
C25_Witness ==
    \E i \in DOMAIN docLog :
        /\ docLog[i].diff = "failed" /\ docLog[i].status = "configured"
        /\ \E c \in WritesFor(docLog[i].m, docLog[i].d) : calls[c].op = "patch" /\ calls[c].ok

\* the rollout-restart patches issued for the environment in progress
BatchRollouts == {i \in DOMAIN calls : calls[i].op = "rollout" /\ calls[i].env = Env}

\* C27: no rollout-restart patch is issued before the last manifest of the batch
\* has been applied, and none at all unless a manifest with configmap or secret
\* in its output path ended Configured; no other outcome and no other path sets
\* the rollout flag.
C27_RolloutOnlyAfterConfigChange ==
    (InBatch /\ Env \in rendered) =>
        /\ needs_rollout <=> ConfigChangeRecorded
        /\ BatchRollouts /= {} =>
              /\ pc \in {"rollout", "post"}
              /\ Len(mLog) = Len(batch)
              /\ ConfigChangeRecorded
              /\ ~dry_run

\* a Deployment was restarted after the batch, and a manifest on another path
\* had ended Configured as well
C27_Witness ==
    /\ pc = "post"
    /\ \E i \in BatchRollouts : calls[i].ok
    /\ \E i \in DOMAIN mLog :
          /\ mLog[i].status = "configured"
          /\ ~PathHas(sorted_templates[mLog[i].m].path, "configmap")

\* the dynamic client's create or patch for document d of manifest m went through
DynamicWriteOk(m, d) ==
    \E i \in DOMAIN calls :
        /\ calls[i].env = Env /\ calls[i].m = m /\ calls[i].d = d
        /\ calls[i].op \in {"create", "patch"} /\ calls[i].ok

\* the external apply command was launched for document d of manifest m
KubectlLaunched(m, d) ==
    \E i \in DOMAIN calls :
        /\ calls[i].env = Env /\ calls[i].m = m /\ calls[i].d = d
        /\ calls[i].op = "kubectl"

\* C28: the external apply command is launched for a resource only after the
\* dynamic-client attempt for that resource has failed, and never when the
\* dynamic client's create or patch succeeded.
C28_KubectlOnlyAfterDynamicFailure ==
    /\ pc = "kubectl" =>
          /\ "dynamic" \in inflight.tiers /\ inflight.apiFail
          /\ ~DynamicWriteOk(mIdx, dIdx)
    /\ InBatch =>
          \A i \in DOMAIN docLog :
              /\ KubectlLaunched(docLog[i].m, docLog[i].d) =>
                    /\ "dynamic" \in docLog[i].tiers /\ docLog[i].apiFail
                    /\ ~DynamicWriteOk(docLog[i].m, docLog[i].d)
              /\ ("dynamic" \in docLog[i].tiers /\ DynamicWriteOk(docLog[i].m, docLog[i].d))
                    => "kubectl" \notin docLog[i].tiers

\* one custom resource went through the dynamic client, another one of the same
\* run through the external command after the dynamic create had failed
C28_Witness ==
    /\ \E i \in DOMAIN calls : calls[i].op = "kubectl" /\ calls[i].ok
    /\ \E i \in DOMAIN calls :
          calls[i].op = "create" /\ ~calls[i].ok /\ calls[i].id.kind = "Widget"
    /\ \E i \in DOMAIN calls :
          calls[i].op \in {"create", "patch"} /\ calls[i].ok /\ calls[i].id.kind = "Widget"

\* C29: when the external apply command exits with status 0 the outcome is the
\* result its output reports for the resource (created, configured or
\* unchanged); when it exits with another status the outcome is Error.
C29_OutcomeFollowsReportedResult ==
    (unit.fn = "_apply_via_kubectl" /\ unit.st = "ret") =>
        unit.status = IF unit.returncode = 0 THEN unit.result ELSE "error"

\* the calls of hook h logged for environment e
HookCalls(h, e) == {i \in DOMAIN hookLog : hookLog[i].hook = h /\ hookLog[i].env = e}

\* the deploy of the application to environment e has returned or was abandoned
DeployOver(e) == BatchFinished(e) \/ (pc = "exited" /\ e \in started)

\* C31: for each deploy of an application the pre-deploy hook is called before
\* any render or cluster call; the post-deploy hook is called exactly once, after
\* the last apply and the last rollout restart, with the final BatchStats and
\* success = (error count = 0); and every pre-deploy call is followed by that
\* post-deploy call by the time the deploy is over.
C31_PostDeployFollowsPreDeploy ==
    \A e \in AllEnvs :
        /\ (e \in rendered \/ \E i \in DOMAIN calls : calls[i].env = e)
              => HookCalls("kdeploy_pre_deploy", e) /= {}
        /\ Cardinality(HookCalls("kdeploy_pre_deploy", e)) <= 1
        /\ Cardinality(HookCalls("kdeploy_post_deploy", e)) <= 1
        /\ \A i \in HookCalls("kdeploy_post_deploy", e) :
              /\ DeployOver(e)
              /\ hookLog[i].stats = lastStats[e]
              /\ hookLog[i].success = (lastStats[e].error = 0)
              /\ \E j \in HookCalls("kdeploy_pre_deploy", e) : j < i
        /\ (DeployOver(e) /\ HookCalls("kdeploy_pre_deploy", e) /= {})
              => HookCalls("kdeploy_post_deploy", e) /= {}

\* a patch call is answered for an object that is live, with no API failure
PatchAnswered ==
    /\ pc = "patch" /\ CurId \in DOMAIN cluster
    /\ Len(docLog') = Len(docLog) + 1
    /\ faultsLeft' = faultsLeft

\* C32: the patch of an existing resource carries no version precondition: it
\* is applied to whatever object is live at the time of the call, also when
\* another actor has modified the object since the diff read, and the outcome
\* is Configured.
C32_PatchWithoutPrecondition ==
    /\ [][PatchAnswered =>
            /\ docLog'[Len(docLog')].status = "configured"
            /\ calls'[Len(calls')].op = "patch" /\ calls'[Len(calls')].ok
            /\ cluster' = IF dry_run THEN cluster
                          ELSE Put(cluster, CurId, Patched(cluster[CurId], CurDoc))]_vars
    /\ [](\A i \in DOMAIN docLog : docLog[i].raced => docLog[i].status = "configured")

\* read, external write, patch: the patch met another live object than the one
\* that was diffed and the outcome is Configured
C32_Witness ==
    /\ ~dry_run
    /\ extLeft < MaxExt
    /\ \E i \in DOMAIN docLog :
          /\ docLog[i].raced /\ docLog[i].diff = "changed"
          /\ docLog[i].status = "configured"
          /\ ~docLog[i].apiFail

\* the environments whose `apps` list contains the application
ListingEnvironments ==
    {e \in DOMAIN unit.environments :
        unit.environments[e].declared /\ unit.app_name \in unit.environments[e].apps}

\* C33: with an application name and no --env the command targets exactly the
\* environments whose `apps` list contains the application.
C33_TargetsListingEnvironments ==
    (/\ unit.fn = "envs_to_deploy" /\ unit.st = "ret"
     /\ unit.app_name /= "" /\ unit.env = "" /\ ~unit.deploy_all)
        => {unit.envs_to_deploy[i] : i \in DOMAIN unit.envs_to_deploy}
              = ListingEnvironments

\* a persisted render of the application has returned
PersistedRender ==
    unit.fn = "render_app_templates" /\ unit.st = "ret" /\ ~unit.in_memory

\* C34: after a persisted render the application's build directory holds
\* exactly the files rendered in this call, no file of an earlier build is
\* left, and the build output of every other application is as it was.
C34_BuildDirHoldsThisRender ==
    PersistedRender =>
        /\ unit.build_files = DOMAIN unit.rendered_templates
        /\ \A f \in unit.prior_files :
              f \in unit.build_files => f \in DOMAIN unit.rendered_templates
        /\ unit.other_files = unit.other_build

\* an earlier build had left a file this render does not produce, next to the
\* build of another application
C34_Witness ==
    /\ PersistedRender
    /\ <<"web", "old">> \in unit.prior_files
    /\ <<"web", "deployment">> \in unit.build_files
    /\ <<"web", "old">> \notin unit.build_files
    /\ unit.other_files = {<<"configmap">>}

RECURSIVE SumOver(_, _)
\* the sum of the counters of st over the keys ks
SumOver(st, ks) ==
    IF ks = {} THEN 0
    ELSE LET k == CHOOSE x \in ks : TRUE IN st[k] + SumOver(st, ks \ {k})

\* C35: at the end of every batch the four counters add up to the number of
\* rendered manifests and BatchStats has no other key: every manifest raised
\* exactly one counter, also when its apply raised an exception.
C35_OneCounterPerManifest ==
    /\ (InBatch /\ Env \in rendered) =>
          /\ DOMAIN stats = Outcomes
          /\ SumOver(stats, DOMAIN stats) = Len(mLog)
          /\ Len(mLog) = mIdx - 1
    /\ (BatchApplied /\ Env \in rendered) =>
          SumOver(stats, DOMAIN stats) = Len(batch)

\* a batch of three manifests, one of which raised, was applied to the end
C35_Witness ==
    /\ pc = "post"
    /\ Len(batch) = 3
    /\ \E i \in DOMAIN mLog : mLog[i].raised
    /\ stats.error >= 1

\* _apply_resource returns Unchanged for a document of a typed kind, in a run
\* that is not a dry run
TypedUnchanged ==
    /\ pc \in {"diff", "patch", "create"}
    /\ CurDoc.kind \in TypedKinds
    /\ ~dry_run
    /\ Len(docLog') = Len(docLog) + 1
    /\ docLog'[Len(docLog')].status = "unchanged"

\* C36: whenever a typed-kind resource ends Unchanged in a run that is not a
\* dry run, the object live at that moment exists and does not differ from the
\* desired manifest under the diff, also when another actor writes to the
\* cluster and API calls answer 409.
C36_UnchangedMatchesLive ==
    [][TypedUnchanged =>
          /\ CurId \in DOMAIN cluster'
          /\ ~SpecDiffers(CurDoc, cluster'[CurId])]_vars

\* a document of manifest k of the current batch ended Configured: a typed or
\* dynamic patch went through, or kubectl apply answered with a change
PatchedDocs(k) == { i \in DocsOf(k) : docLog[i].status = "configured" }

\* C37: a manifest is counted as Configured only if a patch was issued for one
\* of its documents; a manifest with no document, or whose documents all ended
\* Unchanged, Created or Error, is not counted as Configured and does not set
\* the rollout flag.
C37_ConfiguredNeedsPatch ==
    (InBatch /\ Env \in rendered) =>
        /\ \A k \in DOMAIN mLog :
              mLog[k].status = "configured" => PatchedDocs(mLog[k].m) /= {}
        /\ needs_rollout => \E i \in DOMAIN docLog : docLog[i].status = "configured"

\* the namespace document d of the batch was applied in, for environment env
AppliedNamespace(d, env) == DocNamespace(d, NamespaceOf(env))

\* C38: every rollout-restart patch targets the namespace in which that
\* Deployment was applied during the batch: the manifest's metadata.namespace
\* when it declares one, otherwise the namespace passed into the batch.
C38_RolloutInAppliedNamespace ==
    \A i \in DOMAIN calls :
        calls[i].op = "rollout" =>
            \E m \in DOMAIN batch : \E j \in DOMAIN batch[m].docs :
                LET d == batch[m].docs[j]
                IN  /\ d.shape = "map" /\ d.kind = "Deployment"
                    /\ d.name = calls[i].id.name
                    /\ calls[i].id.ns = AppliedNamespace(d, calls[i].env)

\* the Deployment documents the rollout scan comes to, by position
ScannedDeployments ==
    { <<m, j>> \in (DOMAIN batch) \X (1..3) :
        /\ PathHas(batch[m].path, "deployment") /\ batch[m].yamlOK
        /\ j \in DOMAIN batch[m].docs
        /\ batch[m].docs[j].shape = "map" /\ batch[m].docs[j].kind = "Deployment"
        /\ \A i \in 1..j :
              \/ batch[m].docs[i].shape = "empty"
              \/ /\ batch[m].docs[i].shape = "map"
                 /\ batch[m].docs[i].kind = "Deployment" => batch[m].docs[i].name /= "" }

\* the rollout-restart patches issued for the current environment
RestartsIssued == { i \in DOMAIN calls : calls[i].op = "rollout" /\ calls[i].env = Env }

\* a rollout-restart patch fails in this step
RestartFails ==
    /\ pc = "rollout"
    /\ Len(calls') = Len(calls) + 1
    /\ ~calls'[Len(calls')].ok

\* C39: a failed rollout-restart patch, be it an API error or another exception,
\* changes neither BatchStats nor the success flag, and prevents neither the
\* restart of the remaining Deployments of the batch nor the post-deploy hook.
C39_FailedRestartIsContained ==
    /\ [][RestartFails =>
             /\ stats' = stats /\ overall_success' = overall_success
             /\ pc' = "rollout"]_vars
    /\ []((pc = "post" /\ needs_rollout /\ ~dry_run)
             => Cardinality(RestartsIssued) = Cardinality(ScannedDeployments))
    /\ [](\A e \in AllEnvs :
             (plugin /= "none" /\ BatchFinished(e) /\ e \in rendered)
                 => HookCalls("kdeploy_post_deploy", e) /= {})

====
